---- MODULE Spec2Model ----
(***************************************************************************)
(* Model of scripts/test/validate_output.py: the audio validation engine   *)
(* (load, mix_down, align_signals, compute_metrics, decision gate).        *)
(*                                                                         *)
(* Number representation.  Samples are small integers: one unit is one     *)
(* quantisation step of the normalised float samples.  A MonoSeries is     *)
(* held in units of 1/MixScale of a step, so that the mean over the        *)
(* channels is an integer; the lag search and all three metrics are        *)
(* invariant under a common scale of both series.  Arithmetic is exact     *)
(* (rational), i.e. floating-point rounding is not modelled.               *)
(***************************************************************************)
EXTENDS Integers, Sequences, FiniteSets, TLC

(* ---------------------------- bounds ----------------------------------- *)
MaxLen == 3
MaxReplyLen == 5

Samples == {-1, 0, 1}
ChannelCounts == {1, 2}
Rates == {1, 2}
\* max_delay_ms: half a second and one second, i.e. 0, 1 or 2 samples at
\* the rates above; complete validate runs use the shorter one (half a
\* sample period at 1 Hz, one sample at 2 Hz).
DelaysMs == {500, 1000}
RunDelaysMs == {500}

(* ---------------------------- helpers ---------------------------------- *)
Min(a, b) == IF a <= b THEN a ELSE b
Abs(x) == IF x < 0 THEN -x ELSE x

RECURSIVE GCD(_, _)
GCD(a, b) == IF b = 0 THEN a ELSE GCD(b, a % b)

RECURSIVE LCMOf(_)
LCMOf(S) ==
    IF S = {} THEN 1
    ELSE LET n == CHOOSE x \in S : TRUE
             m == LCMOf(S \ {n})
         IN (m * n) \div GCD(m, n)

RECURSIVE SumSeq(_)
SumSeq(s) == IF s = <<>> THEN 0 ELSE Head(s) + SumSeq(Tail(s))

\* Python slices s[:k] (k >= 0), s[k:] (k >= 0) and s[:-k] (k > 0).
Take(s, k) == SubSeq(s, 1, Min(k, Len(s)))
DropFirst(s, k) == SubSeq(s, k + 1, Len(s))
DropLast(s, k) == SubSeq(s, 1, Len(s) - k)

SeqsUpTo(S, n) == UNION {[1..k -> S] : k \in 0..n}

(* ---------------------------- mix_down --------------------------------- *)
MixScale == LCMOf(ChannelCounts)

\* a down-mix that keeps the first channel only
MixDownFirstChannel(data) ==
    [i \in 1..Len(data.frames) |-> data.frames[i][1] * MixScale]

\* np.mean(data, axis=1): one value per frame, the mean over the channels,
\* held in units of 1/MixScale.
MixDown(data) ==
    [i \in 1..Len(data.frames) |->
        SumSeq(data.frames[i]) * (MixScale \div data.channels)]

(* ---------------------------- align_signals ---------------------------- *)
\* int(rate * max_delay_ms / 1000.0) for max_delay_ms >= 0
MaxSamples(rate, ms) == (rate * ms) \div 1000

AnalysisSeconds == 5

\* an analysis window that is not bounded by the 5 seconds
AnalysisLengthWhole(reference, target, rate) ==
    Min(Len(reference), Len(target))

\* min(len(ref), len(tgt), rate * 5)
AnalysisLength(reference, target, rate) ==
    Min(Min(Len(reference), Len(target)), rate * AnalysisSeconds)

\* lags that start one sample early
CorrelationLagsEarly(nt, nr) == [i \in 1..(nt + nr - 1) |-> i - nr - 1]

\* signal.correlation_lags(len(tgt), len(ref), mode="full"), ascending
CorrelationLags(nt, nr) == [i \in 1..(nt + nr - 1) |-> i - nr]

\* signal.correlate(tgt, ref, mode="full") at one lag k:
\* sum over l of tgt[l + k] * ref[l]   (1-based here)
CorrelateAt(tgt, ref, k) ==
    LET idx == {l \in 1..Len(ref) : l + k >= 1 /\ l + k <= Len(tgt)}
        RECURSIVE Acc(_)
        Acc(S) == IF S = {} THEN 0
                  ELSE LET l == CHOOSE x \in S : TRUE
                       IN tgt[l + k] * ref[l] + Acc(S \ {l})
    IN Acc(idx)

Correlate(tgt, ref) ==
    LET lags == CorrelationLags(Len(tgt), Len(ref))
    IN [i \in 1..Len(lags) |-> CorrelateAt(tgt, ref, lags[i])]

\* ValidIndices without the window
ValidIndicesAll(lags, max_samples) == 1..Len(lags)

\* np.where(np.abs(lags) <= max_samples)[0]: the indices, ascending
ValidIndices(lags, max_samples) ==
    {i \in 1..Len(lags) : Abs(lags[i]) <= max_samples}

\* np.argmin in the place of np.argmax
ArgMinFirst(correlation, valid) ==
    CHOOSE i \in valid :
        /\ \A j \in valid : correlation[j] >= correlation[i]
        /\ \A j \in valid : correlation[j] = correlation[i] => i <= j

\* valid[np.argmax(correlation[valid])]: np.argmax returns the first
\* occurrence of the maximum, valid is ascending
ArgMaxFirst(correlation, valid) ==
    CHOOSE i \in valid :
        /\ \A j \in valid : correlation[j] <= correlation[i]
        /\ \A j \in valid : correlation[j] = correlation[i] => i <= j

\* ApplyLag with the two trims exchanged
ApplyLagSwapped(reference, target, lag) ==
    IF lag > 0 THEN
        <<DropFirst(reference, lag), DropLast(target, lag)>>
    ELSE IF lag < 0 THEN
        <<DropLast(reference, -lag), DropFirst(target, -lag)>>
    ELSE <<reference, target>>

\* lines 49-57: the lag applied to the full-length series
ApplyLag(reference, target, lag) ==
    IF lag > 0 THEN
        << IF lag < Len(reference) THEN DropLast(reference, lag) ELSE <<>>,
           DropFirst(target, lag) >>
    ELSE IF lag < 0 THEN
        << DropFirst(reference, -lag), DropLast(target, -lag) >>
    ELSE <<reference, target>>

\* align_signals: the result is [err, aligned_ref, aligned_tgt, lag].
\* For empty analysis windows signal.correlate / np.argmax raise ValueError,
\* and np.argmax raises ValueError when no lag is inside the window.
AlignSignals(reference, target, rate, ms) ==
    LET max_samples == MaxSamples(rate, ms)
        length == AnalysisLength(reference, target, rate)
        ref == Take(reference, length)
        tgt == Take(target, length)
    IN  IF length = 0
        THEN [err |-> "ValueError", aligned_ref |-> <<>>, aligned_tgt |-> <<>>, lag |-> 0]
        ELSE
        LET correlation == Correlate(tgt, ref)
            lags == CorrelationLags(Len(tgt), Len(ref))
            valid == ValidIndices(lags, max_samples)
        IN  IF valid = {}
            THEN [err |-> "ValueError", aligned_ref |-> <<>>, aligned_tgt |-> <<>>, lag |-> 0]
            ELSE
            LET best == ArgMaxFirst(correlation, valid)
                lag == lags[best]
                al == ApplyLag(reference, target, lag)
            IN [err |-> "none", aligned_ref |-> al[1], aligned_tgt |-> al[2], lag |-> lag]

(* ---------------------------- compute_metrics -------------------------- *)
\* A float metric value.  Correlation and spectral similarity are
\* sgn * sqrt(num / den) with num / den in lowest terms, or NaN; the RMS
\* difference in dB is 10 * log10(num / den) of the power ratio, or, when
\* exactly one series is silent, beyond the 1e-12 floor (floor = +1 or -1:
\* about +240 dB or -240 dB; a sample step is far above 1e-12).
NaN == [nan |-> TRUE, sgn |-> 0, num |-> 0, den |-> 1]
Float(sgn, num, den) ==
    LET g == GCD(num, den)
    IN [nan |-> FALSE, sgn |-> sgn, num |-> num \div g, den |-> den \div g]
Zero == Float(0, 0, 1)
One == Float(1, 1, 1)
Db(floor, num, den) ==
    LET g == GCD(num, den)
    IN [floor |-> floor, num |-> num \div g, den |-> den \div g]
ZeroDb == Db(0, 1, 1)

Sign(x) == IF x > 0 THEN 1 ELSE IF x < 0 THEN -1 ELSE 0

Dot(a, b) == SumSeq([i \in 1..Len(a) |-> a[i] * b[i]])

\* min(len(reference), len(target))
CompareLength(reference, target) == Min(Len(reference), Len(target))

\* float(np.corrcoef(ref, tgt)[0, 1]): covariance over the product of the
\* standard deviations; 0/0 (a single sample, or a series of zero
\* variance) is NaN.
Corrcoef(ref, tgt) ==
    LET n == Len(ref)
        c == n * Dot(ref, tgt) - SumSeq(ref) * SumSeq(tgt)
        vx == n * Dot(ref, ref) - SumSeq(ref) * SumSeq(ref)
        vy == n * Dot(tgt, tgt) - SumSeq(tgt) * SumSeq(tgt)
    IN IF vx = 0 \/ vy = 0 THEN NaN
       ELSE Float(Sign(c), c * c, vx * vy)

\* np.hanning(length): weight 0 at both ends and positive inside for
\* length >= 2, and [1.0] for length 1.  The indices of non-zero weight:
HanningSupport(length) == IF length = 1 THEN {1} ELSE 2..(length - 1)

\* The values spectral similarity can take when the two windowed series are
\* neither silent nor proportional: the cosine of two non-negative
\* magnitude vectors, an irrational number of [0, 1] in general.
SpectralGrid == {Float(1, 1, 4), One}

\* lines 74-80.  denom is 0 exactly when a windowed series is all zero
\* (its transform is then zero); the magnitudes are proportional, and the
\* cosine is 1, when the windowed series are proportional.
SpectralSimilarityValues(ref, tgt) ==
    LET sup == HanningSupport(Len(ref))
    IN IF (\A i \in sup : ref[i] = 0) \/ (\A i \in sup : tgt[i] = 0)
       THEN {Zero}
       ELSE IF \A i, j \in sup : tgt[i] * ref[j] = tgt[j] * ref[i]
       THEN {One}
       ELSE SpectralGrid

\* lines 82-84: 20 * log10((tgt_rms + 1e-12) / (ref_rms + 1e-12)); both
\* series have the same length, so the power ratio is the ratio of the
\* sums of squares.
RmsDb(ref, tgt) ==
    LET sr == Dot(ref, ref)
        st == Dot(tgt, tgt)
    IN IF sr = 0 /\ st = 0 THEN ZeroDb
       ELSE IF sr = 0 THEN Db(1, 1, 1)
       ELSE IF st = 0 THEN Db(-1, 1, 1)
       ELSE Db(0, st, sr)

\* compute_metrics whose tgt is left at its full length
ComputeMetricsKeepTarget(reference, target, ss) ==
    LET length == CompareLength(reference, target)
    IN IF length = 0
       THEN [ret |-> <<Zero, Zero>>, ref |-> <<>>, tgt |-> <<>>]
       ELSE LET ref == Take(reference, length)
                tgt == Take(target, length)
            IN [ret |-> <<Corrcoef(ref, tgt), ss, RmsDb(ref, tgt)>>,
                ref |-> ref, tgt |-> target]

\* compute_metrics: the returned tuple and the local ref / tgt.  ss is the
\* value of spectral_similarity, one of SpectralSimilarityValues.
ComputeMetrics(reference, target, ss) ==
    LET length == CompareLength(reference, target)
    IN IF length = 0
       THEN [ret |-> <<Zero, Zero>>, ref |-> <<>>, tgt |-> <<>>]
       ELSE LET ref == Take(reference, length)
                tgt == Take(target, length)
            IN [ret |-> <<Corrcoef(ref, tgt), ss, RmsDb(ref, tgt)>>,
                ref |-> ref, tgt |-> tgt]

SpectralChoices(reference, target) ==
    LET length == CompareLength(reference, target)
    IN IF length = 0 THEN {Zero}
       ELSE SpectralSimilarityValues(Take(reference, length), Take(target, length))

(* ---------------------------- decision gate ---------------------------- *)
\* Thresholds: min_correlation and min_spectral_similarity are rationals
\* <<p, q>>, max_rms_db_diff is a whole number of dB.
DefaultMinCorrelation == <<7, 10>>
DefaultMinSpectralSimilarity == <<4, 5>>
DefaultMaxRmsDbDiff == 6

\* x > p/q
FloatGT(x, t) ==
    LET p == t[1]
        q == t[2]
    IN IF x.nan THEN FALSE
       ELSE IF p > 0 THEN x.sgn > 0 /\ x.num * q * q > p * p * x.den
       ELSE x.sgn >= 0 \/ x.num * q * q < p * p * x.den

\* x >= p/q for a float x; a comparison with NaN is false.
FloatGE(x, t) ==
    LET p == t[1]
        q == t[2]
    IN IF x.nan THEN FALSE
       ELSE IF p > 0 THEN x.sgn > 0 /\ x.num * q * q >= p * p * x.den
       ELSE x.sgn >= 0 \/ x.num * q * q <= p * p * x.den

\* 10 ^ (d / 10) as a rational, for the thresholds 0 dB and 6 dB
\* (10 ^ 0.6 = 3.98107...; no power ratio of the model lies between the
\* rational and the real number).
PowerRatioOfDb(d) == IF d = 0 THEN <<1, 1>> ELSE <<398107, 100000>>

\* abs(rms_db) <= d
AbsDbLE(x, d) ==
    LET r == PowerRatioOfDb(d)
    IN /\ x.floor = 0
       /\ x.num * r[2] <= x.den * r[1]
       /\ x.den * r[2] <= x.num * r[1]

\* ok without the sample-rate condition
VerdictNoRate(srm, chm, m, th) ==
    /\ chm
    /\ FloatGE(m[1], th.min_correlation)
    /\ FloatGE(m[2], th.min_spectral_similarity)
    /\ AbsDbLE(m[3], th.max_rms_db_diff)

\* lines 118-124
Verdict(srm, chm, m, th) ==
    /\ srm
    /\ chm
    /\ FloatGE(m[1], th.min_correlation)
    /\ FloatGE(m[2], th.min_spectral_similarity)
    /\ AbsDbLE(m[3], th.max_rms_db_diff)

(* ---------------------------- daemon replies --------------------------- *)
\* A reply text is a sequence of tokens; its characters are the tokens'
\* characters one after the other.
TokenChars ==
    [t \in {"OK", "OKAY", "ERR", " ", "{", "}", "[", "]", ":", ",", "1", "null",
            "\"status\"", "\"ok\"", "\"error\"", "\"data\"", "\"phase_type\"",
            "\"minimum\"", "\"playback\"", "\"hw:0\""} |->
        CASE t = "OK" -> <<"O", "K">>
          [] t = "OKAY" -> <<"O", "K", "A", "Y">>
          [] t = "ERR" -> <<"E", "R", "R">>
          [] t = "null" -> <<"n", "u", "l", "l">>
          [] t = "\"ok\"" -> <<"\"", "o", "k", "\"">>
          [] t = "\"status\"" -> <<"\"", "s", "t", "a", "t", "u", "s", "\"">>
          [] t = "\"error\"" -> <<"\"", "e", "r", "r", "o", "r", "\"">>
          [] t = "\"data\"" -> <<"\"", "d", "a", "t", "a", "\"">>
          [] t = "\"phase_type\"" ->
                 <<"\"", "p", "h", "a", "s", "e", "_", "t", "y", "p", "e", "\"">>
          [] t = "\"minimum\"" ->
                 <<"\"", "m", "i", "n", "i", "m", "u", "m", "\"">>
          [] t = "\"playback\"" ->
                 <<"\"", "p", "l", "a", "y", "b", "a", "c", "k", "\"">>
          [] t = "\"hw:0\"" -> <<"\"", "h", "w", ":", "0", "\"">>
          [] OTHER -> <<t>>]

RECURSIVE Chars(_)
Chars(text) ==
    IF text = <<>> THEN <<>> ELSE TokenChars[Head(text)] \o Chars(Tail(text))

\* str.startswith(prefix), on characters
StartsWith(text, prefix) ==
    LET c == Chars(text)
    IN Len(c) >= Len(prefix) /\ SubSeq(c, 1, Len(prefix)) = prefix

\* JSON values: kind is "str", "num", "null", "object" or "array"; atom is the
\* token of a scalar; items are an array's values or an object's
\* <<key, value>> members in the order written.
JsonScalar(kind, tok) == [kind |-> kind, atom |-> tok, items |-> <<>>]
JsonStr(tok) == JsonScalar("str", tok)
JsonNull == JsonScalar("null", "null")
JsonObject(members) == [kind |-> "object", atom |-> "", items |-> members]
JsonArray(items) == [kind |-> "array", atom |-> "", items |-> items]
\* the string a string token denotes
TokenString ==
    [t \in {"\"status\"", "\"ok\"", "\"error\"", "\"data\"", "\"phase_type\"",
            "\"minimum\"", "\"playback\"", "\"hw:0\""} |->
        CASE t = "\"status\"" -> "status"
          [] t = "\"ok\"" -> "ok"
          [] t = "\"error\"" -> "error"
          [] t = "\"data\"" -> "data"
          [] t = "\"phase_type\"" -> "phase_type"
          [] t = "\"minimum\"" -> "minimum"
          [] t = "\"playback\"" -> "playback"
          [] t = "\"hw:0\"" -> "hw:0"]
StringTokens == DOMAIN TokenString

\* dict.get(key): the value of the last member written with that key, or
\* None (JsonNull)
JsonGet(obj, key) ==
    LET hits == {i \in 1..Len(obj.items) : obj.items[i][1] = key}
    IN IF hits = {} THEN JsonNull
       ELSE obj.items[CHOOSE i \in hits : \A j \in hits : j <= i][2]
JsonHas(obj, key) == \E i \in 1..Len(obj.items) : obj.items[i][1] = key

\* json.loads on a token sequence: ParseValue reads one value from position
\* i and gives [ok, value, next]; white space between tokens is skipped.
ParseFail == [ok |-> FALSE, value |-> JsonNull, next |-> 0]
RECURSIVE SkipSpace(_, _)
SkipSpace(t, i) == IF i <= Len(t) /\ t[i] = " " THEN SkipSpace(t, i + 1) ELSE i

RECURSIVE ParseValue(_, _), ParseMembers(_, _, _), ParseElements(_, _, _)
ParseValue(t, i0) ==
    LET i == SkipSpace(t, i0)
    IN IF i > Len(t) THEN ParseFail
       ELSE IF t[i] \in StringTokens
         THEN [ok |-> TRUE, value |-> JsonStr(TokenString[t[i]]), next |-> i + 1]
       ELSE IF t[i] = "1"
         THEN [ok |-> TRUE, value |-> JsonScalar("num", "1"), next |-> i + 1]
       ELSE IF t[i] = "null"
         THEN [ok |-> TRUE, value |-> JsonNull, next |-> i + 1]
       ELSE IF t[i] = "{"
         THEN LET j == SkipSpace(t, i + 1)
              IN IF j <= Len(t) /\ t[j] = "}"
                 THEN [ok |-> TRUE, value |-> JsonObject(<<>>), next |-> j + 1]
                 ELSE ParseMembers(t, j, <<>>)
       ELSE IF t[i] = "["
         THEN LET j == SkipSpace(t, i + 1)
              IN IF j <= Len(t) /\ t[j] = "]"
                 THEN [ok |-> TRUE, value |-> JsonArray(<<>>), next |-> j + 1]
                 ELSE ParseElements(t, j, <<>>)
       ELSE ParseFail

\* the members of an object from position i on, up to the closing brace
ParseMembers(t, i0, acc) ==
    LET i == SkipSpace(t, i0)
    IN IF i > Len(t) \/ t[i] \notin StringTokens THEN ParseFail
       ELSE LET c == SkipSpace(t, i + 1)
            IN IF c > Len(t) \/ t[c] # ":" THEN ParseFail
               ELSE LET v == ParseValue(t, c + 1)
                    IN IF ~v.ok THEN ParseFail
                       ELSE LET n == SkipSpace(t, v.next)
                                members == Append(acc, <<TokenString[t[i]], v.value>>)
                            IN IF n > Len(t) THEN ParseFail
                               ELSE IF t[n] = "}"
                                 THEN [ok |-> TRUE, value |-> JsonObject(members),
                                       next |-> n + 1]
                               ELSE IF t[n] = ","
                                 THEN ParseMembers(t, n + 1, members)
                               ELSE ParseFail

\* the elements of an array from position i on, up to the closing bracket
ParseElements(t, i, acc) ==
    LET v == ParseValue(t, i)
    IN IF ~v.ok THEN ParseFail
       ELSE LET n == SkipSpace(t, v.next)
                items == Append(acc, v.value)
            IN IF n > Len(t) THEN ParseFail
               ELSE IF t[n] = "]"
                 THEN [ok |-> TRUE, value |-> JsonArray(items), next |-> n + 1]
               ELSE IF t[n] = ","
                 THEN ParseElements(t, n + 1, items)
               ELSE ParseFail

\* json.loads(text): the whole text must be one value (JSONDecodeError
\* otherwise)
JsonLoads(text) ==
    LET v == ParseValue(text, 1)
    IN IF v.ok /\ SkipSpace(text, v.next) = Len(text) + 1
       THEN [ok |-> TRUE, value |-> v.value]
       ELSE [ok |-> FALSE, value |-> JsonNull]

\* DaemonResponse: the dataclass has the fields success and message only
DaemonResponse(success, message) == [success |-> success, message |-> message]

\* a parser that knows the JSON envelope only
ParseResponseJsonOnly(response) ==
    LET data == JsonLoads(response)
    IN DaemonResponse(data.ok /\ data.value.kind = "object"
                        /\ JsonGet(data.value, "status") = JsonStr("ok"),
                      response)

\* DaemonClient._parse_response
ParseResponse(response) ==
    LET data == JsonLoads(response)
    IN IF ~data.ok
       THEN DaemonResponse(StartsWith(response, <<"O", "K">>), response)
       ELSE IF data.value.kind = "object"
                 /\ JsonGet(data.value, "status") = JsonStr("ok")
            THEN DaemonResponse(TRUE, response)
            ELSE DaemonResponse(FALSE, response)

(* ---------------------------- state ------------------------------------ *)
VARIABLES
    call,               \* entry point: "validate", "align_signals", "compute_metrics"
    pc,                 \* position in the running call
    input_data, output_data, input_rate, output_rate,
    sample_rate_match, channels_match,
    reference, target,  \* arguments of align_signals / compute_metrics
    rate, max_delay_ms,
    aligned_ref, aligned_tgt, lag,
    cm_ref, cm_tgt,     \* compute_metrics' ref and tgt after truncation
    metrics,            \* the tuple compute_metrics returned
    thresholds,
    stdout,             \* the report lines printed so far
    outcome,            \* "none", "returned", "SystemExit(1)", "ValueError"
    result,             \* <<>>, or <<the ValidationResult validate returned>>
    endpoint,           \* the web operation that ran: "none", "_parse_response", ...
    client,             \* what get_daemon_client gives: "DaemonClient" or a test double
    commands,           \* the commands sent to the daemon, in order
    reply,              \* the reply text handed to _parse_response
    parsed,             \* the DaemonResponse it returned
    inputs,             \* what else the operation read (request, files, replies)
    http,               \* the HTTP answer: [status, body]
    wpc,                \* position in the running request handler
    config,             \* config.json on disk
    profile,            \* the EqProfile to_apo_format was called on
    content,            \* an EQ profile text: its lines
    validation,         \* what validate_eq_profile_content returned
    eq_pc,              \* "idle", "converted", "validated"
    socket,             \* DaemonClient._socket: "None" or "Socket"
    context,            \* DaemonClient._context: "None" or "Context"
    connected,          \* whether connect() was done on the socket held
    live_contexts,      \* contexts created and not terminated
    leaked,             \* a context was created while another was held
    last,               \* the last call on the client and what it did
    calls,              \* the number of calls made on the client
    db_file,            \* the OPRA database file: whether it exists, and its lines
    db_instance,        \* _db_instance: 0 for None, else the OpraDatabase held
    constructed,        \* how many OpraDatabase objects were constructed
    loaded,             \* OpraDatabase._loaded
    vendors,            \* OpraDatabase._vendors: a set of <<id, data>>
    products,           \* OpraDatabase._products
    eq_profiles,        \* OpraDatabase._eq_profiles
    failed_before,      \* a load has raised FileNotFoundError
    opra_last           \* the last call on the database and what it did

validate_vars == <<call, pc, input_data, output_data, input_rate, output_rate,
          sample_rate_match, channels_match, reference, target, rate,
          max_delay_ms, aligned_ref, aligned_tgt, lag, cm_ref, cm_tgt,
          metrics, thresholds, stdout, outcome, result>>
web_vars == <<endpoint, client, commands, reply, parsed, inputs, http, wpc, config>>
eq_vars == <<profile, content, validation, eq_pc>>
client_vars == <<socket, context, connected, live_contexts, leaked, last, calls>>
opra_vars == <<db_file, db_instance, constructed, loaded, vendors, products,
              eq_profiles, failed_before, opra_last>>
service_vars == <<eq_vars, client_vars, opra_vars>>
vars == <<validate_vars, web_vars, service_vars>>

NoData == [channels |-> 1, frames |-> <<>>]
DefaultThresholds ==
    [min_correlation |-> DefaultMinCorrelation,
     min_spectral_similarity |-> DefaultMinSpectralSimilarity,
     max_rms_db_diff |-> DefaultMaxRmsDbDiff]
StrictThresholds ==
    [min_correlation |-> <<1, 1>>,
     min_spectral_similarity |-> <<1, 1>>,
     max_rms_db_diff |-> 0]

\* What load_audio can return: (n, C) sample arrays of up to MaxLen frames
\* whose C channels carry the same programme.
AudioData ==
    {[channels |-> c, frames |-> [i \in 1..Len(m) |-> [k \in 1..c |-> m[i]]]] :
        c \in ChannelCounts, m \in SeqsUpTo(Samples, MaxLen)}

MonoSeries == SeqsUpTo(Samples, MaxLen)

\* Series longer than the analysis window at the lowest rate: a head of
\* rate * 5 samples (silence, or one impulse early in it) and a tail of one
\* or two samples behind the window.
LongHeads ==
    LET n == AnalysisSeconds * (CHOOSE r \in Rates : \A q \in Rates : r <= q)
    IN {[i \in 1..n |-> IF i = p THEN 1 ELSE 0] : p \in 0..2}
LongSeries == {h \o t : h \in LongHeads, t \in SeqsUpTo(Samples, 2) \ {<<>>}}

\* The (reference, target) pairs align_signals is called with on its own:
\* short series, the target up to one sample longer, and long series.
AlignArgs ==
    (MonoSeries \X SeqsUpTo(Samples, MaxLen + 1)) \cup (LongSeries \X LongSeries)

\* The (n, C) sample arrays mix_down is called with on its own: up to two
\* frames, the channels independent of each other.
MixArgs ==
    UNION {{[channels |-> c, frames |-> f] : f \in SeqsUpTo([1..c -> Samples], 2)} :
              c \in ChannelCounts}

\* The thresholds a run is given: the command line's defaults, or the
\* strictest ones (every metric must sit exactly at its ideal value).
ThresholdSets == {DefaultThresholds, StrictThresholds}

Init ==
    /\ call = "none"
    /\ pc = "start"
    /\ input_data = NoData
    /\ output_data = NoData
    /\ input_rate = 0
    /\ output_rate = 0
    /\ sample_rate_match = FALSE
    /\ channels_match = FALSE
    /\ reference = <<>>
    /\ target = <<>>
    /\ rate = 0
    /\ max_delay_ms = 0
    /\ aligned_ref = <<>>
    /\ aligned_tgt = <<>>
    /\ lag = 0
    /\ cm_ref = <<>>
    /\ cm_tgt = <<>>
    /\ metrics = <<>>
    /\ thresholds = DefaultThresholds
    /\ stdout = <<>>
    /\ outcome = "none"
    /\ result = <<>>
    /\ endpoint = "none"
    /\ client = "DaemonClient"
    /\ commands = <<>>
    /\ reply = <<>>
    /\ parsed = DaemonResponse(FALSE, <<>>)
    /\ inputs = <<>>
    /\ http = [status |-> 0, body |-> <<>>]
    /\ wpc = "idle"
    /\ config = [kind |-> "missing", atom |-> "", items |-> <<>>]
    /\ profile = [preamp_db |-> 0, bands |-> <<>>]
    /\ content = <<>>
    /\ validation = [valid |-> FALSE, errors |-> <<>>, warnings |-> <<>>,
                     preamp_db |-> <<>>, filter_count |-> 0,
                     recommended_preamp_db |-> 0]
    /\ eq_pc = "idle"
    /\ socket = "None"
    /\ context = "None"
    /\ connected = FALSE
    /\ live_contexts = 0
    /\ leaked = FALSE
    /\ last = [op |-> "__init__", had_socket |-> FALSE, connected_anew |-> FALSE,
               raised |-> FALSE]
    /\ calls = 0
    /\ db_file = [exists |-> FALSE, lines |-> <<>>]
    /\ db_instance = 0
    /\ constructed = 0
    /\ loaded = FALSE
    /\ vendors = {}
    /\ products = {}
    /\ eq_profiles = {}
    /\ failed_before = FALSE
    /\ opra_last = [op |-> "none", was_loaded |-> FALSE, file_existed |-> FALSE,
                    opened |-> 0, raised |-> "none", returned |-> 0]

(* ---------------------------- validate --------------------------------- *)
\* lines 97-104: load both files, the structural facts, mix_down
Load ==
    /\ pc = "start"
    /\ \E din \in AudioData, dout \in AudioData, rin \in Rates, rout \in Rates :
        /\ input_data' = din
        /\ output_data' = dout
        /\ input_rate' = rin
        /\ output_rate' = rout
        /\ sample_rate_match' = (rin = rout)
        /\ channels_match' = (din.channels = dout.channels)
        /\ reference' = MixDown(din)
        /\ target' = MixDown(dout)
        /\ rate' = rin
    /\ call' = "validate"
    /\ pc' = "loaded"
    /\ UNCHANGED <<max_delay_ms, aligned_ref, aligned_tgt, lag, cm_ref, cm_tgt,
                   metrics, thresholds, stdout, outcome, result>>
    /\ UNCHANGED <<web_vars, service_vars>>

\* lines 106-108: align_signals(input_mono, output_mono, input_rate, max_delay_ms)
Align ==
    /\ call = "validate"
    /\ pc = "loaded"
    /\ \E ms \in RunDelaysMs :
        LET r == AlignSignals(reference, target, rate, ms)
        IN /\ max_delay_ms' = ms
           /\ aligned_ref' = r.aligned_ref
           /\ aligned_tgt' = r.aligned_tgt
           /\ lag' = r.lag
           /\ IF r.err = "none"
              THEN pc' = "aligned" /\ outcome' = outcome
              ELSE pc' = "done" /\ outcome' = r.err
    /\ UNCHANGED <<call, input_data, output_data, input_rate, output_rate,
                   sample_rate_match, channels_match, reference, target, rate,
                   cm_ref, cm_tgt, metrics, thresholds, stdout, result>>
    /\ UNCHANGED <<web_vars, service_vars>>

\* line 109: corr, spectral_similarity, rms_db = compute_metrics(...);
\* unpacking a tuple that has not three values raises ValueError
Measure ==
    /\ call \in {"validate", "align_signals"}
    /\ pc = "aligned"
    /\ \E ss \in SpectralChoices(aligned_ref, aligned_tgt) :
        LET r == ComputeMetrics(aligned_ref, aligned_tgt, ss)
        IN /\ metrics' = r.ret
           /\ cm_ref' = r.ref
           /\ cm_tgt' = r.tgt
           /\ IF Len(r.ret) = 3
              THEN pc' = "measured" /\ outcome' = outcome
              ELSE pc' = "done" /\ outcome' = "ValueError"
    /\ UNCHANGED <<call, input_data, output_data, input_rate, output_rate,
                   sample_rate_match, channels_match, reference, target, rate,
                   max_delay_ms, aligned_ref, aligned_tgt, lag, thresholds, stdout,
                   result>>
    /\ UNCHANGED <<web_vars, service_vars>>

\* a report that stops after the two structural lines
ReportStructureOnly ==
    /\ call = "validate"
    /\ pc = "measured"
    /\ stdout' = stdout \o
         << [label |-> "Sample rate match", value |-> sample_rate_match],
            [label |-> "Channels match", value |-> channels_match] >>
    /\ pc' = "reported"
    /\ UNCHANGED <<call, input_data, output_data, input_rate, output_rate,
                   sample_rate_match, channels_match, reference, target, rate,
                   max_delay_ms, aligned_ref, aligned_tgt, lag, cm_ref, cm_tgt,
                   metrics, thresholds, outcome, result>>
    /\ UNCHANGED <<web_vars, service_vars>>

\* lines 111-116: the six report lines
Report ==
    /\ call = "validate"
    /\ pc = "measured"
    /\ stdout' = stdout \o
         << [label |-> "Sample rate match", value |-> sample_rate_match],
            [label |-> "Channels match", value |-> channels_match],
            [label |-> "Alignment lag (samples)", value |-> lag],
            [label |-> "Correlation", value |-> metrics[1]],
            [label |-> "Spectral similarity", value |-> metrics[2]],
            [label |-> "RMS dB diff", value |-> metrics[3]] >>
    /\ pc' = "reported"
    /\ UNCHANGED <<call, input_data, output_data, input_rate, output_rate,
                   sample_rate_match, channels_match, reference, target, rate,
                   max_delay_ms, aligned_ref, aligned_tgt, lag, cm_ref, cm_tgt,
                   metrics, thresholds, outcome, result>>
    /\ UNCHANGED <<web_vars, service_vars>>

\* lines 118-134: ok, raise SystemExit(1) or return the ValidationResult
Gate ==
    /\ call = "validate"
    /\ pc = "reported"
    /\ \E th \in ThresholdSets :
        /\ thresholds' = th
        /\ IF Verdict(sample_rate_match, channels_match, metrics, th)
           THEN /\ outcome' = "returned"
                /\ result' = << [sample_rate_match |-> sample_rate_match,
                                 channels_match |-> channels_match,
                                 correlation |-> metrics[1],
                                 spectral_similarity |-> metrics[2],
                                 rms_db_diff |-> metrics[3]] >>
           ELSE /\ outcome' = "SystemExit(1)"
                /\ result' = result
    /\ pc' = "done"
    /\ UNCHANGED <<call, input_data, output_data, input_rate, output_rate,
                   sample_rate_match, channels_match, reference, target, rate,
                   max_delay_ms, aligned_ref, aligned_tgt, lag, cm_ref, cm_tgt,
                   metrics, stdout>>
    /\ UNCHANGED <<web_vars, service_vars>>

(* ---------------------------- direct calls ----------------------------- *)
\* align_signals(reference, target, rate, max_delay_ms) called on its own;
\* the caller goes on to compute_metrics as lines 106-109 do.
CallAlignSignals ==
    /\ pc = "start"
    /\ \E ab \in AlignArgs, rt \in Rates, ms \in DelaysMs :
        LET r == AlignSignals(ab[1], ab[2], rt, ms)
        IN /\ reference' = ab[1]
           /\ target' = ab[2]
           /\ rate' = rt
           /\ max_delay_ms' = ms
           /\ aligned_ref' = r.aligned_ref
           /\ aligned_tgt' = r.aligned_tgt
           /\ lag' = r.lag
           /\ IF r.err = "none"
              THEN pc' = "aligned" /\ outcome' = outcome
              ELSE pc' = "done" /\ outcome' = r.err
    /\ call' = "align_signals"
    /\ UNCHANGED <<input_data, output_data, input_rate, output_rate,
                   sample_rate_match, channels_match, cm_ref, cm_tgt, metrics,
                   thresholds, stdout, result>>
    /\ UNCHANGED <<web_vars, service_vars>>

\* compute_metrics(reference, target) called on its own
CallComputeMetrics ==
    /\ pc = "start"
    /\ \E a \in MonoSeries, b \in MonoSeries :
        \E ss \in SpectralChoices(a, b) :
            LET r == ComputeMetrics(a, b, ss)
            IN /\ aligned_ref' = a
               /\ aligned_tgt' = b
               /\ metrics' = r.ret
               /\ cm_ref' = r.ref
               /\ cm_tgt' = r.tgt
    /\ call' = "compute_metrics"
    /\ pc' = "done"
    /\ outcome' = "returned"
    /\ UNCHANGED <<input_data, output_data, input_rate, output_rate,
                   sample_rate_match, channels_match, reference, target, rate,
                   max_delay_ms, lag, thresholds, stdout, result>>
    /\ UNCHANGED <<web_vars, service_vars>>

\* mix_down(data) called on its own; data is the argument as it is after
\* the call (np.mean does not write to it)
CallMixDown ==
    /\ pc = "start"
    /\ \E d \in MixArgs :
        /\ input_data' = d
        /\ reference' = MixDown(d)
    /\ call' = "mix_down"
    /\ pc' = "done"
    /\ outcome' = "returned"
    /\ UNCHANGED <<output_data, input_rate, output_rate, sample_rate_match,
                   channels_match, target, rate, max_delay_ms, aligned_ref,
                   aligned_tgt, lag, cm_ref, cm_tgt, metrics, thresholds,
                   stdout, result>>
    /\ UNCHANGED <<web_vars, service_vars>>

Next ==
    \/ Load
    \/ Align
    \/ Measure
    \/ Report
    \/ Gate
    \/ CallAlignSignals
    \/ CallComputeMetrics
    \/ CallMixDown

Spec == Init /\ [][Next]_vars

(* ---------------------------- web: daemon client ----------------------- *)
\* The reply texts _parse_response is called with on its own: every text of
\* up to MaxReplyLen tokens of a small alphabet, and longer or odder ones.
ReplyAlphabet == {"OK", "{", "}", ":", "\"status\"", "\"ok\"", "\"error\""}
OkEnvelope == <<"{", "\"status\"", ":", "\"ok\"", "}">>
ErrorEnvelope == <<"{", "\"status\"", ":", "\"error\"", "}">>
StatsEnvelope ==
    <<"{", "\"status\"", ":", "\"ok\"", ",", "\"data\"", ":",
      "{", "\"phase_type\"", ":", "\"minimum\"", "}", "}">>
OtherReplies ==
    { <<"OKAY">>, <<"ERR">>, <<"ERR", " ", "OK">>, <<" ", "OK">>, <<"OK", " ", "1">>,
      <<"1">>, <<"null">>, <<"[", "]">>, <<"[", "\"ok\"", "]">>,
      <<"[", "\"status\"", ",", "\"ok\"", "]">>,
      <<" ">> \o OkEnvelope, OkEnvelope \o <<" ">>, OkEnvelope \o <<"OK">>,
      <<"{", "\"data\"", ":", "\"ok\"", "}">>,
      <<"{", "\"status\"", ":", "1", "}">>,
      <<"{", "\"status\"", ":", "[", "\"ok\"", "]", "}">>,
      <<"{", "\"status\"", ":", "\"error\"", ",", "\"status\"", ":", "\"ok\"", "}">>,
      <<"{", "\"status\"", ":", "\"ok\"", ",", "\"status\"", ":", "\"error\"", "}">>,
      StatsEnvelope }
ReplyTexts == SeqsUpTo(ReplyAlphabet, MaxReplyLen) \cup OtherReplies

\* DaemonClient._parse_response(response) called on its own
CallParseResponse ==
    /\ endpoint = "none"
    /\ config.kind = "missing"
    /\ \E text \in ReplyTexts :
        /\ reply' = text
        /\ parsed' = ParseResponse(text)
    /\ endpoint' = "_parse_response"
    /\ UNCHANGED <<client, commands, inputs, http, wpc, config>>
    /\ UNCHANGED <<validate_vars, service_vars>>

(* ---------------------------- web: routers ----------------------------- *)
\* What one client.send_command(...) can come to.  With the DaemonClient of
\* daemon_client.py the exchange raises (time-out, no daemon) or the reply
\* text goes through _parse_response; the test double of the endpoint tests
\* hands back a prepared response object that also has a data attribute.
AlsaEnvelope ==
    <<"{", "\"status\"", ":", "\"ok\"", ",", "\"data\"", ":",
      "{", "\"playback\"", ":", "[", "\"hw:0\"", "]", "}", "}">>
DaemonReplies ==
    {<<"OK">>, <<"ERR">>, OkEnvelope, ErrorEnvelope, StatsEnvelope, AlsaEnvelope}
Raised == [raises |-> TRUE, text |-> <<>>, response |-> DaemonResponse(FALSE, <<>>)]
RealExchanges ==
    {Raised} \cup
    {[raises |-> FALSE, text |-> t, response |-> ParseResponse(t)] : t \in DaemonReplies}
DummyResponse(success, message, data) ==
    [success |-> success, message |-> message, data |-> data]
DummyExchanges(datas) ==
    {[raises |-> FALSE, text |-> <<>>, response |-> DummyResponse(ok, <<"OK">>, d)] :
        ok \in BOOLEAN, d \in datas}
HasData(response) == "data" \in DOMAIN response

Http(status, body) == [status |-> status, body |-> body]
HttpError(status, detail) == Http(status, JsonObject(<< <<"detail", JsonStr(detail)>> >>))
\* an exception no handler catches
InternalServerError == HttpError(500, "Internal Server Error")

\* str(x) of a str, an int or None
Str(v) == IF v.kind = "null" THEN "None" ELSE v.atom

AlsaDeviceOption(value, label) ==
    JsonObject(<< <<"value", JsonStr(value)>>, <<"label", JsonStr(label)>> >>)

\* the body of normalize's loop for one item: no option or one
NormalizeItem(item) ==
    IF item.kind = "object"
    THEN LET value0 == JsonGet(item, "value")
             label0 == JsonGet(item, "label")
             value == IF value0 = JsonNull /\ label0 # JsonNull THEN label0 ELSE value0
             label == IF label0 = JsonNull /\ value # JsonNull THEN value ELSE label0
         IN IF value = JsonNull \/ label = JsonNull
            THEN <<>>
            ELSE <<AlsaDeviceOption(Str(value), Str(label))>>
    ELSE <<AlsaDeviceOption(Str(item), Str(item))>>

RECURSIVE Normalize(_)
Normalize(items) ==
    IF items = <<>> THEN <<>> ELSE NormalizeItem(Head(items)) \o Normalize(Tail(items))

\* list_alsa_devices, given what the exchange with the daemon came to
ListAlsaDevices(x) ==
    IF x.raises THEN HttpError(502, "ALSA device query failed")
    ELSE IF ~x.response.success THEN HttpError(502, "ALSA device query failed")
    ELSE IF ~HasData(x.response) THEN InternalServerError
    ELSE IF x.response.data.kind # "object"
      THEN HttpError(502, "ALSA device query failed")
    ELSE LET data == x.response.data
             playback == IF JsonHas(data, "playback") THEN JsonGet(data, "playback")
                         ELSE JsonArray(<<>>)
             capture == IF JsonHas(data, "capture") THEN JsonGet(data, "capture")
                        ELSE JsonArray(<<>>)
         IN IF playback.kind # "array" \/ capture.kind # "array"
            THEN HttpError(502, "Invalid ALSA device payload")
            ELSE Http(200, JsonObject(
                     << <<"playback", JsonArray(Normalize(playback.items))>>,
                        <<"capture", JsonArray(Normalize(capture.items))>> >>))

(* ---------------------------- web: config.json -------------------------- *)
JsonBool(b) == JsonScalar("bool", IF b THEN "true" ELSE "false")
JsonNum(n) == JsonScalar("num", n)

\* bool(x) of a JSON value
Truthy(v) ==
    CASE v.kind = "null" -> FALSE
      [] v.kind = "bool" -> v.atom = "true"
      [] v.kind = "str" -> v.atom # ""
      [] v.kind = "num" -> v.atom # "0"
      [] OTHER -> v.items # <<>>

\* d[key] = value: in place when the key is there, at the end otherwise
DictSet(d, key, value) ==
    IF JsonHas(d, key)
    THEN JsonObject([i \in 1..Len(d.items) |->
                        IF d.items[i][1] = key THEN <<key, value>> ELSE d.items[i]])
    ELSE JsonObject(Append(d.items, <<key, value>>))

\* d.pop(key, None)
RECURSIVE WithoutKey(_, _)
WithoutKey(items, key) ==
    IF items = <<>> THEN <<>>
    ELSE IF Head(items)[1] = key THEN WithoutKey(Tail(items), key)
    ELSE <<Head(items)>> \o WithoutKey(Tail(items), key)
DictPop(d, key) == JsonObject(WithoutKey(d.items, key))

\* d.update(other)
RECURSIVE UpdateItems(_, _)
UpdateItems(d, items) ==
    IF items = <<>> THEN d
    ELSE UpdateItems(DictSet(d, Head(items)[1], Head(items)[2]), Tail(items))
DictUpdate(d, other) == UpdateItems(d, other.items)

\* d.get(key, default): the default only when the key is not there
JsonGetOr(d, key, default) == IF JsonHas(d, key) THEN JsonGet(d, key) ELSE default

\* config.json on disk: a JSON document, or no file, or a file that is not
\* JSON
FileMissing == JsonScalar("missing", "")
FileInvalid == JsonScalar("invalid", "")

\* load_raw_config
LoadRawConfig(file) == IF file.kind = "object" THEN file ELSE JsonObject(<<>>)

LegacyAlsaKeys ==
    <<"alsaInputDevice", "alsaOutputDevice", "alsaSampleRate", "alsaChannels",
      "alsaFormat">>

RECURSIVE PopAll(_, _)
PopAll(d, keys) == IF keys = <<>> THEN d ELSE PopAll(DictPop(d, Head(keys)), Tail(keys))

\* the loop of save_config_updates over updates.items()
RECURSIVE ApplyUpdates(_, _)
ApplyUpdates(existing, items) ==
    IF items = <<>> THEN existing
    ELSE LET key == Head(items)[1]
             value == Head(items)[2]
             section0 == JsonGet(existing, key)
             section == IF section0.kind = "object" THEN section0 ELSE JsonObject(<<>>)
         IN ApplyUpdates(
                IF key \in {"alsa", "filter"} /\ value.kind = "object"
                THEN DictSet(existing, key, DictUpdate(section, value))
                ELSE DictSet(existing, key, value),
                Tail(items))

\* a save_config_updates that starts from an empty document
SaveConfigUpdatesFresh(file, updates, io_ok) ==
    IF io_ok THEN [ok |-> TRUE, file |-> ApplyUpdates(JsonObject(<<>>), updates.items)]
    ELSE [ok |-> FALSE, file |-> file]

\* save_config_updates(updates): [ok, file]; io_ok is whether config.json
\* can be written
SaveConfigUpdates(file, updates, io_ok) ==
    LET merged == ApplyUpdates(LoadRawConfig(file), updates.items)
        existing == IF JsonHas(updates, "alsa") THEN PopAll(merged, LegacyAlsaKeys)
                    ELSE merged
    IN IF io_ok THEN [ok |-> TRUE, file |-> existing]
       ELSE [ok |-> FALSE, file |-> file]

\* the dict update_config builds from the request (model_dump with
\* exclude_unset): every key of a section that is there, None where unset
ConfigUpdates(request) ==
    LET alsa == JsonGet(request, "alsa")
        filter == JsonGet(request, "filter")
        with_alsa ==
            IF alsa.kind = "object"
            THEN << <<"alsa", JsonObject(
                     << <<"inputDevice", JsonGet(alsa, "input_device")>>,
                        <<"outputDevice", JsonGet(alsa, "output_device")>>,
                        <<"sampleRate", JsonGet(alsa, "sample_rate")>>,
                        <<"channels", JsonGet(alsa, "channels")>>,
                        <<"format", JsonGet(alsa, "format")>>,
                        <<"periodFrames", JsonGet(alsa, "period_frames")>>,
                        <<"bufferFrames", JsonGet(alsa, "buffer_frames")>> >>)>> >>
            ELSE <<>>
        with_filter ==
            IF filter.kind = "object"
            THEN << <<"filter", JsonObject(
                     << <<"ratio", JsonGet(filter, "ratio")>>,
                        <<"phaseType", JsonGet(filter, "phase_type")>>,
                        <<"directory", JsonGet(filter, "directory")>> >>)>> >>
            ELSE <<>>
    IN JsonObject(with_alsa \o with_filter)

\* Settings, AlsaSettings and FilterSettings as model_dump() gives them
Settings(eq_enabled, eq_profile, eq_profile_path, alsa, filter) ==
    JsonObject(<< <<"eq_enabled", JsonBool(eq_enabled)>>,
                  <<"eq_profile", eq_profile>>,
                  <<"eq_profile_path", eq_profile_path>>,
                  <<"alsa", alsa>>,
                  <<"filter", filter>> >>)
DefaultSettings == Settings(FALSE, JsonNull, JsonNull, JsonNull, JsonNull)

\* the integers the configuration values stand for
NumValue == [a \in {"-1", "0", "1", "2"} |-> CASE a = "-1" -> -1 [] a = "0" -> 0
                                                [] a = "1" -> 1 [] OTHER -> 2]
\* pydantic: Optional[str], and Optional[int] with ge = min
StrFieldOk(v) == v.kind \in {"null", "str"}
IntFieldOk(v, min) ==
    \/ v.kind = "null"
    \/ v.kind = "num" /\ NumValue[v.atom] >= min
    \/ v.kind = "bool" /\ (IF v.atom = "true" THEN 1 ELSE 0) >= min

\* _build_profile_path for a name that is not empty, and Path(...).stem
ProfilePath == [n \in {"flat", "1"} |-> IF n = "flat" THEN "EQ/flat.txt" ELSE "EQ/1.txt"]
Stem == [q \in {"EQ/flat.txt", "EQ/1.txt", "custom.txt"} |->
            CASE q = "EQ/flat.txt" -> "flat" [] q = "EQ/1.txt" -> "1" [] OTHER -> "custom"]

\* load_config: [raises, settings].  A document that is not an object has
\* no get (AttributeError, which load_config does not catch).
LoadConfig(file) ==
    IF file.kind \in {"missing", "invalid"}
    THEN [raises |-> FALSE, settings |-> DefaultSettings]
    ELSE IF file.kind # "object"
    THEN [raises |-> TRUE, settings |-> DefaultSettings]
    ELSE
    LET data == file
        eq_profile0 == JsonGet(data, "eqProfile")
        eq_profile_path0 == JsonGet(data, "eqProfilePath")
        eq_enabled0 == JsonGet(data, "eqEnabled")
        alsa_block == IF JsonGet(data, "alsa").kind = "object"
                      THEN JsonGet(data, "alsa") ELSE JsonObject(<<>>)
        filter_block == IF JsonGet(data, "filter").kind = "object"
                        THEN JsonGet(data, "filter") ELSE JsonObject(<<>>)
        alsa_input == JsonGetOr(alsa_block, "inputDevice", JsonGet(data, "alsaInputDevice"))
        alsa_output == JsonGetOr(alsa_block, "outputDevice", JsonGet(data, "alsaOutputDevice"))
        alsa_rate == JsonGetOr(alsa_block, "sampleRate", JsonGet(data, "alsaSampleRate"))
        alsa_channels == JsonGetOr(alsa_block, "channels", JsonGet(data, "alsaChannels"))
        alsa_format == JsonGetOr(alsa_block, "format", JsonGet(data, "alsaFormat"))
        alsa_period == JsonGet(alsa_block, "periodFrames")
        alsa_buffer == JsonGet(alsa_block, "bufferFrames")
        filter_ratio == JsonGet(filter_block, "ratio")
        filter_phase == JsonGet(filter_block, "phaseType")
        filter_dir == JsonGet(filter_block, "directory")
        \* lines 66-70
        build == eq_profile_path0 = JsonNull /\ eq_enabled0 = JsonNull /\ Truthy(eq_profile0)
        eq_profile_path == IF build THEN JsonStr(ProfilePath[eq_profile0.atom])
                           ELSE eq_profile_path0
        eq_enabled1 == IF eq_profile_path0 = JsonNull /\ ~build THEN JsonBool(FALSE)
                       ELSE eq_enabled0
        \* lines 72-73
        eq_enabled == IF eq_enabled1 = JsonNull THEN JsonBool(Truthy(eq_profile_path))
                      ELSE eq_enabled1
        \* lines 75-76
        stem == eq_profile0 = JsonNull /\ Truthy(eq_profile_path)
        eq_profile == IF stem /\ eq_profile_path.kind = "str"
                      THEN JsonStr(Stem[eq_profile_path.atom]) ELSE eq_profile0
        alsa_any == \E v \in {alsa_input, alsa_output, alsa_rate, alsa_channels,
                              alsa_format, alsa_period, alsa_buffer} : v # JsonNull
        alsa_ok == /\ StrFieldOk(alsa_input) /\ StrFieldOk(alsa_output)
                   /\ StrFieldOk(alsa_format)
                   /\ IntFieldOk(alsa_rate, 0) /\ IntFieldOk(alsa_channels, 1)
                   /\ IntFieldOk(alsa_period, 0) /\ IntFieldOk(alsa_buffer, 0)
        alsa_settings ==
            IF alsa_any
            THEN JsonObject(<< <<"input_device", alsa_input>>,
                               <<"output_device", alsa_output>>,
                               <<"sample_rate", alsa_rate>>,
                               <<"channels", alsa_channels>>,
                               <<"format", alsa_format>>,
                               <<"period_frames", alsa_period>>,
                               <<"buffer_frames", alsa_buffer>> >>)
            ELSE JsonNull
        filter_any == \E v \in {filter_ratio, filter_phase, filter_dir} : v # JsonNull
        filter_ok == /\ IntFieldOk(filter_ratio, 1) /\ StrFieldOk(filter_phase)
                     /\ StrFieldOk(filter_dir)
        filter_settings ==
            IF filter_any
            THEN JsonObject(<< <<"ratio", filter_ratio>>,
                               <<"phase_type", filter_phase>>,
                               <<"directory", filter_dir>> >>)
            ELSE JsonNull
        \* TypeError from Path(...) of a value that is not a str, and
        \* pydantic's ValidationError (a ValueError), are caught at line 118
        caught == \/ stem /\ eq_profile_path.kind # "str"
                  \/ alsa_any /\ ~alsa_ok
                  \/ filter_any /\ ~filter_ok
                  \/ ~StrFieldOk(eq_profile) \/ ~StrFieldOk(eq_profile_path)
    IN IF caught
       THEN [raises |-> FALSE, settings |-> DefaultSettings]
       ELSE [raises |-> FALSE,
             settings |-> Settings(Truthy(eq_enabled) /\ Truthy(eq_profile_path),
                                   eq_profile, eq_profile_path,
                                   alsa_settings, filter_settings)]

\* the device lists a daemon (or a test double) answers with
DeviceItems ==
    {JsonStr("hw:0"), JsonStr("hw:1"), JsonScalar("num", "1"),
     JsonObject(<< <<"value", JsonStr("hw:0")>>, <<"label", JsonStr("USB")>> >>),
     JsonObject(<< <<"label", JsonStr("USB")>> >>),
     JsonObject(<<>>)}
DeviceLists == SeqsUpTo(DeviceItems, 2)
AlsaData ==
    {JsonObject(<< <<"playback", JsonArray(p)>>, <<"capture", JsonArray(c)>> >>) :
        p \in DeviceLists, c \in DeviceLists} \cup
    {JsonObject(<<>>), JsonNull, JsonArray(<<>>),
     JsonObject(<< <<"playback", JsonStr("hw:0")>> >>),
     JsonObject(<< <<"playback", JsonArray(<<JsonStr("hw:0")>>)>> >>)}

\* GET /api/alsa/devices
GetAlsaDevices ==
    /\ endpoint = "none"
    /\ config.kind = "missing"
    /\ \E cl \in {"DaemonClient", "_DummyClient"} :
        \E x \in IF cl = "DaemonClient" THEN RealExchanges ELSE DummyExchanges(AlsaData) :
            /\ client' = cl
            /\ inputs' = x
            /\ reply' = x.text
            /\ parsed' = IF cl = "DaemonClient" /\ ~x.raises THEN x.response ELSE parsed
            /\ http' = ListAlsaDevices(x)
    /\ commands' = <<"LIST_ALSA_DEVICES">>
    /\ endpoint' = "list_alsa_devices"
    /\ wpc' = "done"
    /\ UNCHANGED config
    /\ UNCHANGED <<validate_vars, service_vars>>

(* ---------------------------- web: PATCH /api/config ------------------- *)
\* the config.json files a request can find
ConfigFiles ==
    { FileInvalid, JsonArray(<<>>), JsonObject(<<>>),
      JsonObject(<< <<"alsaInputDevice", JsonStr("hw:0")>>,
                    <<"eqProfile", JsonStr("flat")>> >>),
      JsonObject(<< <<"alsa", JsonObject(<< <<"inputDevice", JsonStr("hw:0")>>,
                                            <<"channels", JsonNum("2")>>,
                                            <<"latency", JsonNum("1")>> >>)>>,
                    <<"filter", JsonStr("x")>>,
                    <<"eqEnabled", JsonBool(TRUE)>>,
                    <<"eqProfilePath", JsonStr("custom.txt")>> >>),
      JsonObject(<< <<"alsa", JsonObject(<< <<"channels", JsonNum("0")>> >>)>> >>),
      JsonObject(<< <<"alsaChannels", JsonNum("2")>>,
                    <<"alsa", JsonObject(<< <<"latency", JsonNum("1")>> >>)>>,
                    <<"filter", JsonObject(<< <<"ratio", JsonNum("2")>>,
                                              <<"taps", JsonNum("1")>> >>)>>,
                    <<"eqEnabled", JsonBool(TRUE)>>,
                    <<"gain", JsonNum("1")>> >>) }

\* somebody puts a config.json in place before the request
WriteConfigFile ==
    /\ endpoint = "none"
    /\ config.kind = "missing"
    /\ config' \in ConfigFiles
    /\ UNCHANGED <<endpoint, client, commands, reply, parsed, inputs, http, wpc>>
    /\ UNCHANGED <<validate_vars, service_vars>>

\* the request bodies (ConfigUpdateRequest, the fields that were set)
PatchRequests ==
    {JsonObject(a \o f) :
        a \in { <<>>, << <<"alsa", JsonNull>> >>, << <<"alsa", JsonObject(<<>>)>> >>,
                << <<"alsa", JsonObject(<< <<"input_device", JsonStr("hw:1")>>,
                                          <<"sample_rate", JsonNum("1")>> >>)>> >> },
        f \in { <<>>,
                << <<"filter", JsonObject(<< <<"phase_type", JsonStr("linear")>> >>)>> >> }}

NoExchange == [raises |-> FALSE, text |-> <<>>, response |-> DaemonResponse(FALSE, <<>>)]
Exchanges(cl) ==
    IF cl = "DaemonClient" THEN RealExchanges ELSE DummyExchanges({JsonNull})

\* str(message): the reply text, or the text of the exception
MessageString(x) ==
    IF x.raises THEN "Resource temporarily unavailable"
    ELSE CASE x.response.message = <<"OK">> -> "OK"
           [] x.response.message = <<"ERR">> -> "ERR"
           [] x.response.message = OkEnvelope -> "{\"status\": \"ok\"}"
           [] x.response.message = ErrorEnvelope -> "{\"status\": \"error\"}"
           [] OTHER -> "{\"status\": \"ok\", \"data\": {...}}"

\* check_daemon_running: client.ping(), False when the exchange raises
CheckDaemonRunning(x) == ~x.raises /\ x.response.success

\* an answer whose restart_required follows daemon_running
PatchAnswerByRunning(in) ==
    Http(200, JsonObject(
        << <<"success", JsonBool(TRUE)>>,
           <<"message", JsonStr("Config saved")>>,
           <<"data", JsonObject(
               << <<"daemon_running", JsonBool(in.daemon_running)>>,
                  <<"daemon_reloaded", JsonBool(in.reload_success)>>,
                  <<"reload_error", in.reload_message>>,
                  <<"settings", in.settings>> >>)>>,
           <<"restart_required", JsonBool(~in.daemon_running)>> >>))

\* lines 69-79 of update_config: the ApiResponse
PatchAnswer(in) ==
    Http(200, JsonObject(
        << <<"success", JsonBool(TRUE)>>,
           <<"message", JsonStr("Config saved")>>,
           <<"data", JsonObject(
               << <<"daemon_running", JsonBool(in.daemon_running)>>,
                  <<"daemon_reloaded", JsonBool(in.reload_success)>>,
                  <<"reload_error", in.reload_message>>,
                  <<"settings", in.settings>> >>)>>,
           <<"restart_required", JsonBool(~in.reload_success)>> >>))

\* PATCH /api/config, lines 29-53: build the updates, save, load_config
PatchConfigSave ==
    /\ endpoint = "none"
    /\ \E request \in PatchRequests, io_ok \in BOOLEAN,
          cl \in {"DaemonClient", "_DummyClient"} :
        LET r == SaveConfigUpdates(config, ConfigUpdates(request), io_ok)
            l == LoadConfig(r.file)
        IN /\ client' = cl
           /\ config' = r.file
           /\ inputs' = [request |-> request, saved |-> r.ok,
                         settings |-> l.settings,
                         ping |-> NoExchange, reload |-> NoExchange,
                         daemon_running |-> FALSE, reload_success |-> FALSE,
                         reload_message |-> JsonNull]
           /\ IF ~r.ok
              THEN http' = HttpError(500, "Failed to save config") /\ wpc' = "done"
              ELSE IF l.raises
              THEN http' = InternalServerError /\ wpc' = "done"
              ELSE http' = http /\ wpc' = "saved"
    /\ endpoint' = "update_config"
    /\ UNCHANGED <<commands, reply, parsed>>
    /\ UNCHANGED <<validate_vars, service_vars>>

\* a handler that goes on to RELOAD whatever the PING check says
PatchConfigPingAlways ==
    /\ endpoint = "update_config"
    /\ wpc = "saved"
    /\ \E x \in Exchanges(client) :
        inputs' = [inputs EXCEPT !.ping = x, !.daemon_running = CheckDaemonRunning(x)]
    /\ wpc' = "running"
    /\ commands' = Append(commands, "PING")
    /\ UNCHANGED <<endpoint, client, reply, parsed, config, http>>
    /\ UNCHANGED <<validate_vars, service_vars>>

\* line 54: check_daemon_running(); when the daemon is not running the
\* handler goes straight to its answer
PatchConfigPing ==
    /\ endpoint = "update_config"
    /\ wpc = "saved"
    /\ \E x \in Exchanges(client) :
        LET in == [inputs EXCEPT !.ping = x, !.daemon_running = CheckDaemonRunning(x)]
        IN /\ inputs' = in
           /\ IF in.daemon_running
              THEN http' = http /\ wpc' = "running"
              ELSE http' = PatchAnswer(in) /\ wpc' = "done"
    /\ commands' = Append(commands, "PING")
    /\ UNCHANGED <<endpoint, client, reply, parsed, config>>
    /\ UNCHANGED <<validate_vars, service_vars>>

\* lines 58-79: RELOAD, and the answer
PatchConfigReload ==
    /\ endpoint = "update_config"
    /\ wpc = "running"
    /\ \E x \in Exchanges(client) :
        LET in == [inputs EXCEPT
                     !.reload = x,
                     !.reload_success = ~x.raises /\ x.response.success,
                     !.reload_message =
                         IF ~x.raises /\ x.response.success THEN JsonNull
                         ELSE JsonStr(MessageString(x))]
        IN /\ inputs' = in
           /\ http' = PatchAnswer(in)
    /\ commands' = Append(commands, "RELOAD")
    /\ wpc' = "done"
    /\ UNCHANGED <<endpoint, client, reply, parsed, config>>
    /\ UNCHANGED <<validate_vars, service_vars>>

(* ---------------------------- web: GET /api/status --------------------- *)
\* int(x): [raises, value]; the strings of the model are not numerals
IntOf(v) ==
    CASE v.kind = "num" -> [raises |-> FALSE, value |-> v]
      [] v.kind = "bool" ->
             [raises |-> FALSE, value |-> JsonNum(IF v.atom = "true" THEN "1" ELSE "0")]
      [] OTHER -> [raises |-> TRUE, value |-> JsonNum("0")]

\* x or 0
OrZero(v) == IF Truthy(v) THEN v ELSE JsonNum("0")

StatsOf(in_rate, out_rate, xrun_total) ==
    JsonObject(<< <<"input_rate", in_rate>>, <<"output_rate", out_rate>>,
                  <<"xrun_total", xrun_total>> >>)
DefaultStats == StatsOf(JsonNum("0"), JsonNum("0"), JsonNum("0"))

\* a load_stats that prefers the top-level xrun_count
LoadStatsTopFirst(file) ==
    IF file.kind # "object" THEN [raises |-> FALSE, stats |-> DefaultStats]
    ELSE
    LET audio0 == JsonGetOr(file, "audio", JsonObject(<<>>))
        audio == IF audio0.kind = "object" THEN audio0 ELSE JsonObject(<<>>)
        audio_xrun0 == JsonGetOr(audio, "xrun", JsonObject(<<>>))
        audio_xrun == IF audio_xrun0.kind = "object" THEN audio_xrun0 ELSE JsonObject(<<>>)
        xrun_total ==
            IntOf(JsonGetOr(file, "xrun_count",
                     OrZero(JsonGetOr(audio, "xrun_count",
                                JsonGetOr(audio_xrun, "total", JsonNum("0"))))))
        in_rate == IntOf(OrZero(JsonGetOr(file, "input_rate", JsonNum("0"))))
        out_rate == IntOf(OrZero(JsonGetOr(file, "output_rate", JsonNum("0"))))
    IN IF xrun_total.raises \/ in_rate.raises \/ out_rate.raises
       THEN [raises |-> TRUE, stats |-> DefaultStats]
       ELSE [raises |-> FALSE,
             stats |-> StatsOf(in_rate.value, out_rate.value, xrun_total.value)]

\* load_stats: [raises, stats]
LoadStats(file) ==
    IF file.kind # "object" THEN [raises |-> FALSE, stats |-> DefaultStats]
    ELSE
    LET data == file
        audio0 == JsonGetOr(data, "audio", JsonObject(<<>>))
        audio == IF audio0.kind = "object" THEN audio0 ELSE JsonObject(<<>>)
        audio_xrun0 == JsonGetOr(audio, "xrun", JsonObject(<<>>))
        audio_xrun == IF audio_xrun0.kind = "object" THEN audio_xrun0 ELSE JsonObject(<<>>)
        xrun_total ==
            IntOf(JsonGetOr(audio_xrun, "total",
                     OrZero(JsonGetOr(audio, "xrun_count",
                                JsonGetOr(data, "xrun_count", JsonNum("0"))))))
        in_rate == IntOf(OrZero(JsonGetOr(data, "input_rate", JsonNum("0"))))
        out_rate == IntOf(OrZero(JsonGetOr(data, "output_rate", JsonNum("0"))))
    IN IF xrun_total.raises \/ in_rate.raises \/ out_rate.raises
       THEN [raises |-> TRUE, stats |-> DefaultStats]
       ELSE [raises |-> FALSE,
             stats |-> StatsOf(in_rate.value, out_rate.value, xrun_total.value)]

\* fetch_zmq_stats: the AttributeError of a response without data is
\* swallowed by the except clause, like every other exception
FetchZmqStats(x) ==
    IF x.raises THEN JsonObject(<<>>)
    ELSE IF ~x.response.success THEN JsonObject(<<>>)
    ELSE IF ~HasData(x.response) THEN JsonObject(<<>>)
    ELSE IF x.response.data.kind = "object" THEN x.response.data
    ELSE JsonObject(<<>>)

\* lines 18-28 of get_status: the StatusResponse; a value of the wrong type
\* fails the response model
StatusAnswer(daemon_running, stats, zmq_stats) ==
    LET phase_type == JsonGet(zmq_stats, "phase_type")
        uptime_ms == JsonGet(zmq_stats, "uptime_ms")
        reloads == JsonGet(zmq_stats, "reloads")
        soft_resets == JsonGet(zmq_stats, "soft_resets")
    IN IF /\ StrFieldOk(phase_type)
          /\ \A v \in {uptime_ms, reloads, soft_resets} : v.kind \in {"null", "num", "bool"}
       THEN Http(200, JsonObject(
                << <<"daemon_running", JsonBool(daemon_running)>>,
                   <<"state", JsonStr(IF daemon_running THEN "running" ELSE "stopped")>>,
                   <<"input_rate", JsonGet(stats, "input_rate")>>,
                   <<"output_rate", JsonGet(stats, "output_rate")>>,
                   <<"xrun_total", JsonGet(stats, "xrun_total")>>,
                   <<"phase_type", phase_type>>,
                   <<"uptime_ms", uptime_ms>>,
                   <<"reloads", reloads>>,
                   <<"soft_resets", soft_resets>> >>))
       ELSE InternalServerError

\* the stats files a request can find
StatsFiles ==
    { FileMissing, FileInvalid, JsonArray(<<>>), JsonObject(<<>>),
      JsonObject(<< <<"input_rate", JsonNum("1")>>, <<"output_rate", JsonNum("2")>>,
                    <<"audio", JsonObject(<< <<"xrun",
                         JsonObject(<< <<"total", JsonNum("2")>> >>)>> >>)>> >>),
      JsonObject(<< <<"input_rate", JsonNum("1")>>, <<"output_rate", JsonNum("2")>>,
                    <<"xrun_count", JsonNum("1")>> >>),
      JsonObject(<< <<"input_rate", JsonNum("2")>>, <<"output_rate", JsonNull>>,
                    <<"audio", JsonObject(<< <<"xrun_count", JsonNum("1")>> >>)>>,
                    <<"xrun_count", JsonNum("2")>> >>),
      JsonObject(<< <<"input_rate", JsonStr("x")>> >>),
      JsonObject(<< <<"audio", JsonObject(<< <<"xrun",
                         JsonObject(<< <<"total", JsonNull>> >>)>> >>)>> >>) }

\* the data a test double answers STATS with
StatsData ==
    { JsonObject(<< <<"phase_type", JsonStr("minimum")>>, <<"uptime_ms", JsonNum("1")>>,
                    <<"reloads", JsonNum("1")>> >>),
      JsonObject(<< <<"phase_type", JsonStr("minimum")>>, <<"uptime_ms", JsonNum("1")>>,
                    <<"reloads", JsonNum("1")>>, <<"soft_resets", JsonNum("2")>> >>),
      JsonObject(<< <<"phase_type", JsonNum("1")>> >>),
      JsonObject(<<>>), JsonNull }

\* GET /api/status, lines 14-15: check_daemon_running() and load_stats();
\* when the daemon is not running the handler goes straight to its answer
GetStatusPing ==
    /\ endpoint = "none"
    /\ config.kind = "missing"
    /\ \E cl \in {"DaemonClient", "_DummyClient"}, sf \in StatsFiles :
        \E x \in Exchanges(cl) :
            LET running == CheckDaemonRunning(x)
                ls == LoadStats(sf)
            IN /\ client' = cl
               /\ inputs' = [ping |-> x, stats_file |-> sf, stats |-> ls.stats,
                             daemon_running |-> running, fetch |-> NoExchange]
               /\ IF ls.raises
                  THEN http' = InternalServerError /\ wpc' = "done"
                  ELSE IF running
                  THEN http' = http /\ wpc' = "running"
                  ELSE /\ http' = StatusAnswer(running, ls.stats, JsonObject(<<>>))
                       /\ wpc' = "done"
    /\ commands' = <<"PING">>
    /\ endpoint' = "get_status"
    /\ UNCHANGED <<reply, parsed, config>>
    /\ UNCHANGED <<validate_vars, service_vars>>

\* lines 16-28: fetch_zmq_stats(), and the answer
GetStatusFetch ==
    /\ endpoint = "get_status"
    /\ wpc = "running"
    /\ \E x \in IF client = "DaemonClient" THEN RealExchanges
                 ELSE DummyExchanges(StatsData) :
        /\ inputs' = [inputs EXCEPT !.fetch = x]
        /\ http' = StatusAnswer(inputs.daemon_running, inputs.stats, FetchZmqStats(x))
    /\ commands' = Append(commands, "STATS")
    /\ wpc' = "done"
    /\ UNCHANGED <<endpoint, client, reply, parsed, config>>
    /\ UNCHANGED <<validate_vars, service_vars>>

(* ---------------------------- web: /api/daemon/phase-type -------------- *)
\* the data a test double answers the phase-type commands with
PhaseData ==
    { JsonObject(<< <<"phase_type", JsonStr("linear")>> >>),
      JsonObject(<< <<"phase_type", JsonStr("minimum")>> >>),
      JsonObject(<< <<"phase_type", JsonNum("1")>> >>),
      JsonObject(<<>>), JsonNull }
PhaseExchanges(cl) ==
    IF cl = "DaemonClient" THEN RealExchanges
    ELSE {Raised} \cup DummyExchanges(PhaseData)

\* get_phase_type: the read of response.data is outside the try block
GetPhaseTypeAnswer(x) ==
    IF x.raises THEN HttpError(502, MessageString(x))
    ELSE IF ~x.response.success THEN HttpError(502, MessageString(x))
    ELSE IF ~HasData(x.response) THEN InternalServerError
    ELSE IF x.response.data.kind # "object" \/ ~JsonHas(x.response.data, "phase_type")
      THEN HttpError(502, "invalid phase response")
    ELSE IF JsonGet(x.response.data, "phase_type").kind # "str"
      THEN InternalServerError
    ELSE Http(200, JsonObject(
             << <<"phase_type", JsonGet(x.response.data, "phase_type")>> >>))

\* GET /api/daemon/phase-type
GetPhaseType ==
    /\ endpoint = "none"
    /\ config.kind = "missing"
    /\ \E cl \in {"DaemonClient", "_DummyClient"} :
        \E x \in PhaseExchanges(cl) :
            /\ client' = cl
            /\ inputs' = [exchange |-> x, phase_type |-> "none"]
            /\ http' = GetPhaseTypeAnswer(x)
    /\ commands' = <<"PHASE_TYPE_GET">>
    /\ endpoint' = "get_phase_type"
    /\ wpc' = "done"
    /\ UNCHANGED <<reply, parsed, config>>
    /\ UNCHANGED <<validate_vars, service_vars>>

\* client.send_json(...): DaemonClient has no such method, the call raises
\* AttributeError inside the try block and nothing reaches the daemon
SendJson(cl, x) == IF cl = "DaemonClient" THEN Raised ELSE x

\* set_phase_type, after the call
SetPhaseTypeAnswer(x, phase_type) ==
    IF x.raises THEN HttpError(502, MessageString(x))
    ELSE IF ~x.response.success THEN HttpError(502, MessageString(x))
    ELSE IF ~HasData(x.response) THEN InternalServerError
    ELSE Http(200, JsonObject(
             << <<"success", JsonBool(TRUE)>>,
                <<"message", JsonStr(IF phase_type = "minimum"
                                     THEN "Phase type set to minimum"
                                     ELSE "Phase type set to linear")>>,
                <<"data", IF x.response.data.kind = "object" THEN x.response.data
                          ELSE JsonNull>>,
                <<"restart_required", JsonBool(FALSE)>> >>))

\* PUT /api/daemon/phase-type
SetPhaseType ==
    /\ endpoint = "none"
    /\ config.kind = "missing"
    /\ \E cl \in {"DaemonClient", "_DummyClient"}, pt \in {"minimum", "linear"} :
        \E x \in PhaseExchanges(cl) :
            /\ client' = cl
            /\ inputs' = [exchange |-> SendJson(cl, x), phase_type |-> pt]
            /\ http' = SetPhaseTypeAnswer(SendJson(cl, x), pt)
            /\ commands' = IF cl = "DaemonClient" THEN <<>> ELSE <<"PHASE_TYPE_SET">>
    /\ endpoint' = "set_phase_type"
    /\ wpc' = "done"
    /\ UNCHANGED <<reply, parsed, config>>
    /\ UNCHANGED <<validate_vars, service_vars>>

\* the members of a document that are there
Absent == JsonScalar("missing", "")
Members(pairs) == SelectSeq(pairs, LAMBDA p : p[2].kind # "missing")

\* the stats documents load_stats is called on: every combination of the
\* three xrun counters and the two rates being there or not
StatsDocument(total, audio_count, top_count, in_rate, out_rate) ==
    LET xrun == Members(<< <<"total", total>> >>)
        audio == Members(<< <<"xrun", IF xrun = <<>> THEN Absent ELSE JsonObject(xrun)>>,
                            <<"xrun_count", audio_count>> >>)
    IN JsonObject(Members(
           << <<"input_rate", in_rate>>,
              <<"output_rate", out_rate>>,
              <<"audio", IF audio = <<>> THEN Absent ELSE JsonObject(audio)>>,
              <<"xrun_count", top_count>> >>))
StatsDocuments ==
    {FileMissing, FileInvalid, JsonArray(<<>>), JsonNum("1"),
     JsonObject(<< <<"audio", JsonStr("x")>>, <<"xrun_count", JsonNum("2")>> >>),
     JsonObject(<< <<"audio", JsonObject(<< <<"xrun", JsonNum("1")>>,
                                            <<"xrun_count", JsonNum("2")>> >>)>> >>)}
    \cup
    {StatsDocument(t, a, x, i, o) :
        t \in {Absent, JsonNum("1"), JsonNull},
        a \in {Absent, JsonNum("2"), JsonNum("0"), JsonNull},
        x \in {Absent, JsonNum("2")},
        i \in {Absent, JsonNum("1"), JsonStr("x"), JsonNull},
        o \in {Absent, JsonNum("2")}}

\* a call of load_stats on a stats file
CallLoadStats ==
    /\ endpoint = "none"
    /\ config.kind = "missing"
    /\ \E file \in StatsDocuments :
        LET ls == LoadStats(file)
        IN inputs' = [stats_file |-> file, raises |-> ls.raises, stats |-> ls.stats]
    /\ endpoint' = "load_stats"
    /\ wpc' = "done"
    /\ UNCHANGED <<client, commands, reply, parsed, http, config>>
    /\ UNCHANGED <<validate_vars, service_vars>>

(* ---------------------------- web: saving config.json ------------------ *)
\* _build_profile_path
BuildProfilePath(profile_name) ==
    IF ~Truthy(profile_name) THEN JsonNull ELSE JsonStr(ProfilePath[profile_name.atom])

\* a save_config that writes the EQ fields of the settings as they are
SaveConfigUngated(file, settings, io_ok) ==
    IF io_ok
    THEN [ok |-> TRUE,
          file |-> DictSet(DictSet(DictSet(LoadRawConfig(file),
                       "eqEnabled", JsonGet(settings, "eq_enabled")),
                       "eqProfile", JsonGet(settings, "eq_profile")),
                       "eqProfilePath", JsonGet(settings, "eq_profile_path"))]
    ELSE [ok |-> FALSE, file |-> file]

\* save_config(settings): [ok, file]
SaveConfig(file, settings, io_ok) ==
    LET existing0 == LoadRawConfig(file)
        eq_profile_path ==
            IF Truthy(JsonGet(settings, "eq_profile_path"))
            THEN JsonGet(settings, "eq_profile_path")
            ELSE BuildProfilePath(JsonGet(settings, "eq_profile"))
        eq_enabled == Truthy(JsonGet(settings, "eq_enabled")) /\ Truthy(eq_profile_path)
        existing1 ==
            DictSet(DictSet(DictSet(existing0, "eqEnabled", JsonBool(eq_enabled)),
                            "eqProfile",
                            IF eq_enabled THEN JsonGet(settings, "eq_profile") ELSE JsonNull),
                    "eqProfilePath", IF eq_enabled THEN eq_profile_path ELSE JsonNull)
        alsa == JsonGet(settings, "alsa")
        alsa_existing == IF JsonGet(existing1, "alsa").kind = "object"
                         THEN JsonGet(existing1, "alsa") ELSE JsonObject(<<>>)
        existing2 ==
            IF alsa = JsonNull THEN existing1
            ELSE PopAll(
                   DictSet(existing1, "alsa",
                       DictUpdate(alsa_existing, JsonObject(
                           << <<"inputDevice", JsonGet(alsa, "input_device")>>,
                              <<"outputDevice", JsonGet(alsa, "output_device")>>,
                              <<"sampleRate", JsonGet(alsa, "sample_rate")>>,
                              <<"channels", JsonGet(alsa, "channels")>>,
                              <<"format", JsonGet(alsa, "format")>>,
                              <<"periodFrames", JsonGet(alsa, "period_frames")>>,
                              <<"bufferFrames", JsonGet(alsa, "buffer_frames")>> >>))),
                   LegacyAlsaKeys)
        filter == JsonGet(settings, "filter")
        filter_existing == IF JsonGet(existing2, "filter").kind = "object"
                           THEN JsonGet(existing2, "filter") ELSE JsonObject(<<>>)
        existing3 ==
            IF filter = JsonNull THEN existing2
            ELSE DictSet(existing2, "filter",
                     DictUpdate(filter_existing, JsonObject(
                         << <<"ratio", JsonGet(filter, "ratio")>>,
                            <<"phaseType", JsonGet(filter, "phase_type")>>,
                            <<"directory", JsonGet(filter, "directory")>> >>)))
    IN IF io_ok THEN [ok |-> TRUE, file |-> existing3]
       ELSE [ok |-> FALSE, file |-> file]

\* the Settings save_config is called with
AlsaSettings(input_device, channels) ==
    JsonObject(<< <<"input_device", input_device>>, <<"output_device", JsonNull>>,
                  <<"sample_rate", JsonNull>>, <<"channels", channels>>,
                  <<"format", JsonNull>>, <<"period_frames", JsonNull>>,
                  <<"buffer_frames", JsonNull>> >>)
FilterSettings(ratio, phase_type) ==
    JsonObject(<< <<"ratio", ratio>>, <<"phase_type", phase_type>>,
                  <<"directory", JsonNull>> >>)
SettingsInputs ==
    {Settings(e, p, q, a, f) :
        e \in BOOLEAN,
        p \in {JsonNull, JsonStr("flat"), JsonStr("")},
        q \in {JsonNull, JsonStr("custom.txt"), JsonStr("")},
        a \in {JsonNull, AlsaSettings(JsonStr("hw:1"), JsonNum("2"))},
        f \in {JsonNull, FilterSettings(JsonNull, JsonStr("linear"))}}

\* the dicts save_config_updates is called with
UpdateDicts ==
    { JsonObject(<<>>),
      JsonObject(<< <<"eqEnabled", JsonBool(FALSE)>> >>),
      JsonObject(<< <<"alsa", JsonObject(<< <<"channels", JsonNum("1")>> >>)>> >>),
      JsonObject(<< <<"alsa", JsonObject(<< <<"inputDevice", JsonStr("hw:1")>> >>)>>,
                    <<"filter", JsonObject(<< <<"ratio", JsonNum("1")>> >>)>> >>),
      JsonObject(<< <<"filter", JsonObject(<< <<"phaseType", JsonStr("linear")>> >>)>>,
                    <<"gain", JsonNum("2")>> >>),
      JsonObject(<< <<"alsa", JsonNull>> >>) }

\* the config.json files load_config is called on: the files above and
\* every combination of the three EQ keys
LoadFiles ==
    ConfigFiles \cup {FileMissing} \cup
    {JsonObject(Members(<< <<"eqEnabled", e>>, <<"eqProfile", p>>,
                           <<"eqProfilePath", q>> >>)) :
        e \in {Absent, JsonBool(TRUE), JsonBool(FALSE), JsonNull},
        p \in {Absent, JsonStr("flat"), JsonStr(""), JsonNull},
        q \in {Absent, JsonStr("custom.txt"), JsonStr(""), JsonNum("1"), JsonNull}}

\* a call of load_config() on a config.json somebody put in place
CallLoadConfig ==
    /\ endpoint = "none"
    /\ config.kind = "missing"
    /\ \E file \in LoadFiles :
        LET l == LoadConfig(file)
        IN /\ config' = file
           /\ inputs' = [before |-> file, settings |-> l.settings,
                         updates |-> JsonObject(<<>>), io_ok |-> TRUE,
                         ok |-> ~l.raises, raises |-> l.raises]
    /\ endpoint' = "load_config"
    /\ wpc' = "done"
    /\ UNCHANGED <<client, commands, reply, parsed, http>>
    /\ UNCHANGED <<validate_vars, service_vars>>

\* a call of save_config(settings)
CallSaveConfig ==
    /\ endpoint = "none"
    /\ \E settings \in SettingsInputs, io_ok \in BOOLEAN :
        LET r == SaveConfig(config, settings, io_ok)
        IN /\ config' = r.file
           /\ inputs' = [before |-> config, settings |-> settings,
                         updates |-> JsonObject(<<>>), io_ok |-> io_ok,
                         ok |-> r.ok, raises |-> FALSE]
    /\ endpoint' = "save_config"
    /\ wpc' = "done"
    /\ UNCHANGED <<client, commands, reply, parsed, http>>
    /\ UNCHANGED <<validate_vars, service_vars>>

\* a call of save_config_updates(updates)
CallSaveConfigUpdates ==
    /\ endpoint = "none"
    /\ \E updates \in UpdateDicts, io_ok \in BOOLEAN :
        LET r == SaveConfigUpdates(config, updates, io_ok)
        IN /\ config' = r.file
           /\ inputs' = [before |-> config, settings |-> DefaultSettings,
                         updates |-> updates, io_ok |-> io_ok,
                         ok |-> r.ok, raises |-> FALSE]
    /\ endpoint' = "save_config_updates"
    /\ wpc' = "done"
    /\ UNCHANGED <<client, commands, reply, parsed, http>>
    /\ UNCHANGED <<validate_vars, service_vars>>

\* a call of fetch_zmq_stats: the STATS command and what comes back
CallFetchZmqStats ==
    /\ endpoint = "none"
    /\ config.kind = "missing"
    /\ \E cl \in {"DaemonClient", "_DummyClient"} :
        \E x \in IF cl = "DaemonClient" THEN RealExchanges
                  ELSE {Raised} \cup DummyExchanges(StatsData) :
            /\ client' = cl
            /\ inputs' = [fetch |-> x, raises |-> FALSE, zmq_stats |-> FetchZmqStats(x)]
    /\ commands' = <<"STATS">>
    /\ endpoint' = "fetch_zmq_stats"
    /\ wpc' = "done"
    /\ UNCHANGED <<reply, parsed, http, config>>
    /\ UNCHANGED <<validate_vars, service_vars>>

NextWeb ==
    \/ CallLoadConfig
    \/ CallSaveConfig
    \/ CallSaveConfigUpdates
    \/ CallFetchZmqStats
    \/ GetPhaseType
    \/ SetPhaseType
    \/ CallLoadStats
    \/ CallParseResponse
    \/ GetAlsaDevices
    \/ WriteConfigFile
    \/ PatchConfigSave
    \/ PatchConfigPing
    \/ PatchConfigReload
    \/ GetStatusPing
    \/ GetStatusFetch

SpecWeb == Init /\ [][NextWeb]_vars

(* ---------------------------- services: EQ profiles --------------------- *)
\* Decibels and hertz are counted in tenths, Q in hundredths: the
\* precisions to_apo_format prints them with.
MaxLines == 3
MaxBands == 2
MAX_EQ_FILTERS == 100
PREAMP_MIN_DB == -1000
PREAMP_MAX_DB == 200
FREQ_MIN_HZ == 100
FREQ_MAX_HZ == 240000
GAIN_MIN_DB == -300
GAIN_MAX_DB == 300
Q_MIN == 1
Q_MAX == 10000

\* FILTER_TYPE_PARAMS: which types use gain, which use q
GainTypes ==
    {"PK", "MODAL", "PEQ", "AP", "LS", "HS", "LSC", "HSC", "LSQ", "HSQ",
     "LS 6DB", "LS 12DB", "HS 6DB", "HS 12DB"}
QTypes == {"PK", "MODAL", "PEQ", "AP", "LS", "HS", "LSQ", "HSQ"}
FilterTypes == GainTypes \cup {"LP", "LPQ", "HP", "HPQ", "BP", "NO"}
FILTER_TYPE_PARAMS ==
    [t \in FilterTypes |-> [fc |-> TRUE, gain |-> t \in GainTypes, q |-> t \in QTypes]]

\* A line of a profile text, by what the regular expressions of eq.py find
\* in it.  key is how the line starts ("Preamp:", "preamp:", "Filter", "#",
\* "" for a blank line); value is the number after Preamp:, <<>> when the
\* pattern does not match; matched says whether base_pattern matches a
\* filter line; gain, q and bw are <<>> when their pattern finds nothing.
ProfileLine(key, value, matched, enabled, filter_type, frequency, gain, q, bw) ==
    [key |-> key, value |-> value, matched |-> matched, enabled |-> enabled,
     filter_type |-> filter_type, frequency |-> frequency, gain |-> gain,
     q |-> q, bw |-> bw]
PreampLine(key, value) == ProfileLine(key, value, FALSE, FALSE, "", 0, <<>>, <<>>, <<>>)
FilterLine(enabled, filter_type, frequency, gain, q) ==
    ProfileLine("Filter", <<>>, TRUE, enabled, filter_type, frequency, gain, q, <<>>)
OtherLine(key) == ProfileLine(key, <<>>, FALSE, FALSE, "", 0, <<>>, <<>>, <<>>)

\* EqBand and EqProfile
EqBand(enabled, filter_type, frequency, gain_db, q) ==
    [enabled |-> enabled, filter_type |-> filter_type, frequency |-> frequency,
     gain_db |-> gain_db, q |-> q]
EqProfile(preamp_db, bands) == [preamp_db |-> preamp_db, bands |-> bands]

\* the band loop of to_apo_format: disabled bands are left out, LP and HP
\* print no gain
RECURSIVE BandLines(_)
BandLines(bands) ==
    IF bands = <<>> THEN <<>>
    ELSE LET band == Head(bands)
         IN IF ~band.enabled THEN BandLines(Tail(bands))
            ELSE IF band.filter_type \in {"LP", "HP"}
            THEN <<FilterLine(TRUE, band.filter_type, band.frequency, <<>>, <<band.q>>)>>
                     \o BandLines(Tail(bands))
            ELSE <<FilterLine(TRUE, band.filter_type, band.frequency,
                              <<band.gain_db>>, <<band.q>>)>>
                     \o BandLines(Tail(bands))

\* EqProfile.to_apo_format
ToApoFormat(p) ==
    (IF p.preamp_db # 0 THEN <<PreampLine("Preamp:", <<p.preamp_db>>)>> ELSE <<>>)
        \o BandLines(p.bands)

\* content.strip() is empty
EmptyContent(lines) == \A i \in 1..Len(lines) : lines[i].key = ""

\* the first loop: the first line that starts with "Preamp:" (as written)
PreampScan(lines) ==
    LET hits == {i \in 1..Len(lines) : lines[i].key = "Preamp:"}
    IN IF hits = {}
       THEN [found |-> FALSE, preamp_db |-> <<>>,
             errors |-> <<"Missing 'Preamp:' line">>, warnings |-> <<>>]
       ELSE LET line == lines[CHOOSE i \in hits : \A j \in hits : i <= j]
            IN IF line.value = <<>>
               THEN [found |-> TRUE, preamp_db |-> <<>>, errors |-> <<>>,
                     warnings |-> <<"Could not parse Preamp value">>]
               ELSE [found |-> TRUE, preamp_db |-> line.value,
                     errors |-> IF line.value[1] < PREAMP_MIN_DB
                                   \/ line.value[1] > PREAMP_MAX_DB
                                THEN <<"Preamp out of range">> ELSE <<>>,
                     warnings |-> <<>>]

\* the checks of one parsed filter line
FilterErrors(line) ==
    (IF line.filter_type \in FilterTypes
        /\ FILTER_TYPE_PARAMS[line.filter_type].gain /\ line.gain = <<>>
     THEN <<"requires Gain parameter">> ELSE <<>>)
    \o (IF line.filter_type \in FilterTypes
           /\ FILTER_TYPE_PARAMS[line.filter_type].q /\ line.q = <<>> /\ line.bw = <<>>
        THEN <<"requires Q (or BW/Oct) parameter">> ELSE <<>>)
    \o (IF line.frequency < FREQ_MIN_HZ \/ line.frequency > FREQ_MAX_HZ
        THEN <<"Frequency out of range">> ELSE <<>>)
    \o (IF line.gain # <<>> /\ (line.gain[1] < GAIN_MIN_DB \/ line.gain[1] > GAIN_MAX_DB)
        THEN <<"Gain out of range">> ELSE <<>>)
    \o (IF line.q # <<>> /\ (line.q[1] < Q_MIN \/ line.q[1] > Q_MAX)
        THEN <<"Q out of range">> ELSE <<>>)

\* the second loop, from line i on
RECURSIVE FilterScan(_, _, _)
FilterScan(lines, i, acc) ==
    IF i > Len(lines) THEN acc
    ELSE LET line == lines[i]
         IN IF line.key # "Filter" THEN FilterScan(lines, i + 1, acc)
            ELSE IF ~line.matched
            THEN FilterScan(lines, i + 1,
                     [acc EXCEPT !.filter_count = @ + 1,
                                 !.warnings = Append(@, "Could not parse filter line")])
            ELSE FilterScan(lines, i + 1,
                     [filter_count |-> acc.filter_count + 1,
                      errors |-> acc.errors \o FilterErrors(line),
                      warnings |-> IF line.filter_type \in FilterTypes THEN acc.warnings
                                   ELSE Append(acc.warnings, "Unknown type"),
                      max_positive_gain |->
                          IF /\ line.gain # <<>>
                             /\ line.gain[1] >= GAIN_MIN_DB /\ line.gain[1] <= GAIN_MAX_DB
                             /\ line.enabled /\ line.gain[1] > acc.max_positive_gain
                          THEN line.gain[1] ELSE acc.max_positive_gain])

EqValidation(errors, warnings, preamp_db, filter_count, recommended_preamp_db) ==
    [valid |-> errors = <<>>, errors |-> errors, warnings |-> warnings,
     preamp_db |-> preamp_db, filter_count |-> filter_count,
     recommended_preamp_db |-> recommended_preamp_db]

\* validate_eq_profile_content
ValidateEqProfileContent(lines) ==
    IF EmptyContent(lines)
    THEN EqValidation(<<"Empty file">>, <<>>, <<>>, 0, 0)
    ELSE
    LET preamp == PreampScan(lines)
        scan == FilterScan(lines, 1,
                    [filter_count |-> 0, errors |-> preamp.errors,
                     warnings |-> preamp.warnings, max_positive_gain |-> 0])
        errors == scan.errors \o
                  (IF scan.filter_count > MAX_EQ_FILTERS THEN <<"Too many filters">>
                   ELSE <<>>)
        warnings1 == scan.warnings \o
                     (IF scan.filter_count = 0 /\ preamp.found
                      THEN <<"No filter lines found (only Preamp)">> ELSE <<>>)
        recommended == IF scan.max_positive_gain > 0 THEN 0 - scan.max_positive_gain ELSE 0
        warnings == warnings1 \o
                    (IF /\ scan.max_positive_gain > 0
                        /\ preamp.preamp_db # <<>>
                        /\ preamp.preamp_db[1] > recommended
                     THEN <<"Preamp may clip">> ELSE <<>>)
    IN EqValidation(errors, warnings, preamp.preamp_db, scan.filter_count, recommended)

\* the bands and profiles of the OPRA converter
Bands ==
    { EqBand(TRUE, "PK", 10000, 30, 100),
      EqBand(FALSE, "PK", 10000, 30, 100),
      EqBand(TRUE, "LP", 1000, 0, 71),
      EqBand(TRUE, "LS", 1050, -20, 71) }
EqProfiles == {EqProfile(p, b) : p \in {0, -30}, b \in SeqsUpTo(Bands, MaxBands)}

\* the lines of a profile somebody wrote or uploaded
WrittenLines ==
    { PreampLine("Preamp:", <<-30>>), PreampLine("Preamp:", <<250>>),
      PreampLine("preamp:", <<-30>>), PreampLine("Preamp:", <<>>),
      FilterLine(TRUE, "PK", 10000, <<30>>, <<100>>),
      FilterLine(TRUE, "LP", 1000, <<>>, <<>>),
      FilterLine(TRUE, "PK", 10000, <<>>, <<100>>),
      FilterLine(TRUE, "PK", 10000, <<30>>, <<0>>),
      FilterLine(FALSE, "HSC", 50, <<-20>>, <<>>),
      FilterLine(TRUE, "XX", 10000, <<>>, <<>>),
      ProfileLine("Filter", <<>>, FALSE, FALSE, "", 0, <<>>, <<>>, <<>>),
      OtherLine("#"), OtherLine("") }
Contents == SeqsUpTo(WrittenLines, MaxLines)

\* EqProfile.to_apo_format()
CallToApoFormat ==
    /\ eq_pc = "idle"
    /\ \E p \in EqProfiles :
        /\ profile' = p
        /\ content' = ToApoFormat(p)
    /\ eq_pc' = "converted"
    /\ UNCHANGED validation
    /\ UNCHANGED <<validate_vars, web_vars, client_vars, opra_vars>>

\* a profile text that was written by hand
WriteProfile ==
    /\ eq_pc = "idle"
    /\ \E lines \in Contents : content' = lines
    /\ eq_pc' = "written"
    /\ UNCHANGED <<profile, validation>>
    /\ UNCHANGED <<validate_vars, web_vars, client_vars, opra_vars>>

\* validate_eq_profile_content(content)
CallValidateEqProfileContent ==
    /\ eq_pc \in {"converted", "written"}
    /\ validation' = ValidateEqProfileContent(content)
    /\ eq_pc' = "validated"
    /\ UNCHANGED <<profile, content>>
    /\ UNCHANGED <<validate_vars, web_vars, client_vars, opra_vars>>

NextServices ==
    \/ CallToApoFormat
    \/ WriteProfile
    \/ CallValidateEqProfileContent

SpecServices == Init /\ [][NextServices]_vars

(* ---------------------------- services: DaemonClient -------------------- *)
MaxCalls == 5

\* where _ensure_connected and the exchange after it can raise: creating
\* the context, creating the socket, the socket options, connect(), and the
\* send / receive of send_command
Failures == {"none", "Context", "socket", "setsockopt", "connect", "send"}

Called(op, had_socket, connected_anew, raised) ==
    [op |-> op, had_socket |-> had_socket, connected_anew |-> connected_anew,
     raised |-> raised]

\* send_command when no socket is held: _ensure_connected builds one
SendCommandConnect ==
    /\ calls < MaxCalls
    /\ socket = "None"
    /\ \E f \in Failures :
        /\ context' = IF f = "Context" THEN context ELSE "Context"
        /\ live_contexts' = IF f = "Context" THEN live_contexts ELSE live_contexts + 1
        /\ leaked' = (leaked \/ (f # "Context" /\ context # "None"))
        /\ socket' = IF f \in {"Context", "socket"} THEN "None" ELSE "Socket"
        /\ connected' = (f \in {"none", "send"})
        /\ last' = Called("send_command", FALSE, f \in {"none", "send"}, f # "none")
    /\ calls' = calls + 1
    /\ UNCHANGED <<validate_vars, web_vars, eq_vars, opra_vars>>

\* send_command when a socket is held: it is used as it is; one that was
\* never connected cannot send
SendCommandReuse ==
    /\ calls < MaxCalls
    /\ socket # "None"
    /\ \E f \in {"none", "send"} :
        /\ ~connected => f = "send"
        /\ last' = Called("send_command", TRUE, FALSE, f # "none")
    /\ calls' = calls + 1
    /\ UNCHANGED <<socket, context, connected, live_contexts, leaked>>
    /\ UNCHANGED <<validate_vars, web_vars, eq_vars, opra_vars>>

\* close(), also as __exit__
Close ==
    /\ calls < MaxCalls
    /\ \E op \in {"close", "__exit__"} :
        last' = Called(op, socket # "None", FALSE, FALSE)
    /\ socket' = "None"
    /\ context' = "None"
    /\ connected' = FALSE
    /\ live_contexts' = IF context # "None" THEN live_contexts - 1 ELSE live_contexts
    /\ calls' = calls + 1
    /\ UNCHANGED leaked
    /\ UNCHANGED <<validate_vars, web_vars, eq_vars, opra_vars>>

\* __enter__ returns the client
Enter ==
    /\ calls < MaxCalls
    /\ last' = Called("__enter__", socket # "None", FALSE, FALSE)
    /\ calls' = calls + 1
    /\ UNCHANGED <<socket, context, connected, live_contexts, leaked>>
    /\ UNCHANGED <<validate_vars, web_vars, eq_vars, opra_vars>>

NextClient ==
    \/ SendCommandConnect
    \/ SendCommandReuse
    \/ Close
    \/ Enter

SpecClient == Init /\ [][NextClient]_vars

----------------------------------------------------------------------------
\* scripts/integration/opra.py: OpraDatabase and get_database

\* the longest database file written
MaxEntries == 2

\* a line of database_v1.jsonl, by what _ensure_loaded finds in it:
\* "blank" (empty after strip), "invalid" (json.loads raises JSONDecodeError),
\* "scalar" (JSON that is not an object) or "entry" (an object with its type,
\* id and data members)
DbLine(kind, type, id, data) ==
    [kind |-> kind, type |-> type, id |-> id, data |-> data]

DbLines ==
    { DbLine("blank", "", "", ""),
      DbLine("invalid", "", "", ""),
      DbLine("scalar", "", "", ""),
      DbLine("entry", "vendor", "a", "x"),
      DbLine("entry", "vendor", "b", "x"),
      DbLine("entry", "product", "a", "x"),
      DbLine("entry", "eq", "a", "x"),
      DbLine("entry", "other", "a", "x") }

DbFiles ==
    {[exists |-> FALSE, lines |-> <<>>]}
        \cup {[exists |-> TRUE, lines |-> l] : l \in SeqsUpTo(DbLines, MaxEntries)}

\* d[k] = v on a dict held as a set of <<key, value>>
Put(d, k, v) == {p \in d : p[1] # k} \cup {<<k, v>>}

\* lines 210-229: the loop over the lines of the file; st holds the three
\* dicts and the exception that ended the loop, if any
RECURSIVE LoadLines(_, _, _)
LoadLines(lines, i, st) ==
    IF i > Len(lines) THEN st
    ELSE LET line == lines[i]
         IN IF line.kind = "blank" \/ line.kind = "invalid"
            THEN LoadLines(lines, i + 1, st)
            ELSE IF line.kind = "scalar"
            THEN [st EXCEPT !.raised = "AttributeError"]
            ELSE LoadLines(lines, i + 1,
                     CASE line.type = "vendor" ->
                              [st EXCEPT !.vendors = Put(@, line.id, line.data)]
                       [] line.type = "product" ->
                              [st EXCEPT !.products = Put(@, line.id, line.data)]
                       [] line.type = "eq" ->
                              [st EXCEPT !.eq_profiles = Put(@, line.id, line.data)]
                       [] OTHER -> st)

\* the fields of the OpraDatabase held
Database ==
    [loaded |-> loaded, vendors |-> vendors, products |-> products,
     eq_profiles |-> eq_profiles]

\* what a load gives: the fields afterwards, the exception raised and the
\* number of times the file was opened
Loading(db, file) ==
    LET st == LoadLines(file.lines, 1,
                  [vendors |-> db.vendors, products |-> db.products,
                   eq_profiles |-> db.eq_profiles, raised |-> "none"])
    IN [db |-> [loaded |-> st.raised = "none", vendors |-> st.vendors,
                products |-> st.products, eq_profiles |-> st.eq_profiles],
        raised |-> st.raised, opened |-> 1]

\* a load that does not look at _loaded
EnsureLoadedAlways(db, file) ==
    IF ~file.exists
    THEN [db |-> db, raised |-> "FileNotFoundError", opened |-> 0]
    ELSE Loading(db, file)

\* lines 199-231: _ensure_loaded
EnsureLoaded(db, file) ==
    IF db.loaded
    THEN [db |-> db, raised |-> "none", opened |-> 0]
    ELSE IF ~file.exists
    THEN [db |-> db, raised |-> "FileNotFoundError", opened |-> 0]
    ELSE Loading(db, file)

\* the record kept of a call
OpraCalled(op, was_loaded, file_existed, opened, raised, returned) ==
    [op |-> op, was_loaded |-> was_loaded, file_existed |-> file_existed,
     opened |-> opened, raised |-> raised, returned |-> returned]

\* what an accessor leaves behind: the fields after its load and the record
\* of the call; count is the dict whose length it returns
Accessed(op, r, count) ==
    /\ loaded' = r.db.loaded
    /\ vendors' = r.db.vendors
    /\ products' = r.db.products
    /\ eq_profiles' = r.db.eq_profiles
    /\ failed_before' = (failed_before \/ r.raised = "FileNotFoundError")
    /\ opra_last' = OpraCalled(op, loaded, db_file.exists, r.opened, r.raised,
                               IF r.raised = "none" THEN Cardinality(count) ELSE 0)
    /\ UNCHANGED <<db_file, db_instance, constructed>>
    /\ UNCHANGED <<validate_vars, web_vars, eq_vars, client_vars>>

\* lines 233-236: vendor_count on the shared instance
VendorCount ==
    /\ db_instance # 0
    /\ LET r == EnsureLoaded(Database, db_file)
       IN Accessed("vendor_count", r, r.db.vendors)

\* lines 238-242: product_count, which calls _ensure_loaded twice
ProductCount ==
    /\ db_instance # 0
    /\ LET first == EnsureLoaded(Database, db_file)
           second == EnsureLoaded(first.db, db_file)
           r == IF first.raised # "none" THEN first
                ELSE [second EXCEPT !.opened = first.opened + second.opened]
       IN Accessed("product_count", r, r.db.products)

\* lines 243-246: eq_profile_count
EqProfileCount ==
    /\ db_instance # 0
    /\ LET r == EnsureLoaded(Database, db_file)
       IN Accessed("eq_profile_count", r, r.db.eq_profiles)

\* lines 334-342: get_database; lines 192-197: the constructor it calls when
\* _db_instance is None
GetDatabase ==
    /\ IF db_instance = 0
       THEN /\ constructed' = constructed + 1
            /\ db_instance' = constructed + 1
            /\ loaded' = FALSE
            /\ vendors' = {}
            /\ products' = {}
            /\ eq_profiles' = {}
       ELSE UNCHANGED <<constructed, db_instance, loaded, vendors, products,
                        eq_profiles>>
    /\ opra_last' = OpraCalled("get_database", loaded', db_file.exists, 0,
                               "none", db_instance')
    /\ UNCHANGED <<db_file, failed_before>>
    /\ UNCHANGED <<validate_vars, web_vars, eq_vars, client_vars>>

\* the database file is removed, or written anew with at most one line,
\* between calls
WriteDatabaseFile ==
    /\ \E f \in DbFiles : Len(f.lines) <= 1 /\ f # db_file /\ db_file' = f
    /\ UNCHANGED <<db_instance, constructed, loaded, vendors, products,
                   eq_profiles, failed_before, opra_last>>
    /\ UNCHANGED <<validate_vars, web_vars, eq_vars, client_vars>>

\* a line is added to the database file between calls
AppendDatabaseLine ==
    /\ db_file.exists
    /\ Len(db_file.lines) < MaxEntries
    /\ \E line \in DbLines :
        db_file' = [db_file EXCEPT !.lines = Append(@, line)]
    /\ UNCHANGED <<db_instance, constructed, loaded, vendors, products,
                   eq_profiles, failed_before, opra_last>>
    /\ UNCHANGED <<validate_vars, web_vars, eq_vars, client_vars>>

NextOpra ==
    \/ GetDatabase
    \/ WriteDatabaseFile
    \/ AppendDatabaseLine
    \/ VendorCount
    \/ ProductCount
    \/ EqProfileCount

SpecOpra == Init /\ [][NextOpra]_vars

(* ---------------------------- properties ------------------------------- *)
\* align_signals has returned (no exception) in the running call
AlignReturned ==
    /\ call \in {"validate", "align_signals"}
    /\ pc \in {"aligned", "measured", "reported", "done"}
    /\ outcome # "ValueError"

\* compute_metrics has returned three values for the aligned series
Measured ==
    /\ call \in {"validate", "align_signals"}
    /\ pc \in {"measured", "reported", "done"}
    /\ Len(metrics) = 3

\* the Decision Gate has been reached and has acted
Decided ==
    /\ call = "validate"
    /\ pc = "done"
    /\ outcome \in {"returned", "SystemExit(1)"}

\* The cross-correlation of the analysis windows at lag k, and the lags
\* inside the max-delay window.
WindowLength == AnalysisLength(reference, target, rate)
XCorr(k) == CorrelateAt(Take(target, WindowLength), Take(reference, WindowLength), k)
AllLags == (1 - WindowLength)..(WindowLength - 1)
WindowLags == {k \in AllLags : Abs(k) * 1000 <= rate * max_delay_ms}
MaxLags == {k \in WindowLags : \A j \in WindowLags : XCorr(j) <= XCorr(k)}

Silent(s) == \A i \in 1..Len(s) : s[i] = 0
Constant(s) == \A i, j \in 1..Len(s) : s[i] = s[j]
Zeros(k) == [i \in 1..k |-> 0]

\* C1: a run that reaches the Decision Gate returns normally exactly when
\* the sample rates match, the channel counts match, correlation >=
\* min_correlation, spectral similarity >= min_spectral_similarity and
\* |RMS dB difference| <= max_rms_db_diff, and otherwise ends with
\* SystemExit(1); metrics exactly at their thresholds pass.
C1_VerdictIffAllFive ==
    Decided =>
        /\ outcome = "returned" <=>
              /\ sample_rate_match
              /\ channels_match
              /\ FloatGE(metrics[1], thresholds.min_correlation)
              /\ FloatGE(metrics[2], thresholds.min_spectral_similarity)
              /\ AbsDbLE(metrics[3], thresholds.max_rms_db_diff)
        /\ outcome # "returned" => outcome = "SystemExit(1)"
        /\ (/\ thresholds = StrictThresholds
            /\ sample_rate_match
            /\ channels_match
            /\ metrics = <<One, One, ZeroDb>>) => outcome = "returned"
        /\ (~sample_rate_match \/ ~channels_match) => outcome = "SystemExit(1)"

\* a pass with every metric exactly at its threshold
C1_Witness ==
    /\ Decided
    /\ thresholds = StrictThresholds
    /\ metrics = <<One, One, ZeroDb>>
    /\ outcome = "returned"

\* C2 as stated: a positive lag L removes the first L samples of the
\* reference and the last L samples of the target, a negative lag the
\* reverse, lag 0 leaves both untouched.
C2_AsStated ==
    AlignReturned =>
        /\ lag > 0 => /\ aligned_ref = DropFirst(reference, lag)
                      /\ aligned_tgt = DropLast(target, lag)
        /\ lag < 0 => /\ aligned_ref = DropLast(reference, -lag)
                      /\ aligned_tgt = DropFirst(target, -lag)
        /\ lag = 0 => aligned_ref = reference /\ aligned_tgt = target

\* C2 amended: a positive lag L removes the last L samples of the reference
\* and the first L samples of the target; a negative lag -L removes the
\* first L samples of the reference and the last L of the target; lag 0
\* leaves both untouched.
C2_LagTrim ==
    AlignReturned =>
        LET L == Abs(lag)
        IN /\ lag > 0 =>
                /\ Len(aligned_ref) = Len(reference) - L
                /\ \A i \in 1..Len(aligned_ref) : aligned_ref[i] = reference[i]
                /\ Len(aligned_tgt) = Len(target) - L
                /\ \A i \in 1..Len(aligned_tgt) : aligned_tgt[i] = target[i + L]
           /\ lag < 0 =>
                /\ Len(aligned_ref) = Len(reference) - L
                /\ \A i \in 1..Len(aligned_ref) : aligned_ref[i] = reference[i + L]
                /\ Len(aligned_tgt) = Len(target) - L
                /\ \A i \in 1..Len(aligned_tgt) : aligned_tgt[i] = target[i]
           /\ lag = 0 => aligned_ref = reference /\ aligned_tgt = target

\* a positive lag applied to series that the two trims tell apart
C2_Witness ==
    /\ AlignReturned
    /\ lag > 0
    /\ aligned_ref # DropFirst(reference, lag)
    /\ aligned_tgt # DropLast(target, lag)

\* C3: among the in-window lags that share the maximum cross-correlation
\* the selected lag has the smallest absolute value (lag 0 when all tie).
C3_TieClosestToZero ==
    AlignReturned =>
        /\ lag \in MaxLags
        /\ \A k \in MaxLags : Abs(lag) <= Abs(k)

C5_LagInWindow ==
    AlignReturned => Abs(lag) <= (rate * max_delay_ms) \div 1000

\* the best lag over all lags lies outside the window and is not returned
C5_Witness ==
    /\ AlignReturned
    /\ \E k \in AllLags \ WindowLags : XCorr(k) > XCorr(lag)

\* C6: when max_delay_ms is below one sample period the Aligner, given
\* non-empty series, fails with AlignmentWindowError: it returns no lag
\* and the run goes no further.
C6_WindowError ==
    (/\ call \in {"validate", "align_signals"}
     /\ pc \in {"aligned", "measured", "reported", "done"}
     /\ Len(reference) > 0
     /\ Len(target) > 0
     /\ rate * max_delay_ms < 1000)
        => /\ pc = "done"
           /\ outcome = "AlignmentWindowError"

\* C7: for an aligned series of zero length compute_metrics returns three
\* values, correlation 0 and spectral similarity 0 among them.
C7_ZeroLengthMetrics ==
    (/\ call = "compute_metrics"
     /\ pc = "done"
     /\ (Len(aligned_ref) = 0 \/ Len(aligned_tgt) = 0))
        => /\ Len(metrics) = 3
           /\ metrics[1] = Zero
           /\ metrics[2] = Zero

\* C8: validating all-zero signals, or comparing a pair in which a series
\* has zero variance, gives correlation exactly 0 (never NaN); all-zero
\* signals give spectral similarity 0 and a fail verdict.
C8_SilenceIsZero ==
    /\ (Measured /\ (Constant(cm_ref) \/ Constant(cm_tgt))) => metrics[1] = Zero
    /\ (Measured /\ Silent(reference) /\ Silent(target)) => metrics[2] = Zero
    /\ (Decided /\ Silent(reference) /\ Silent(target)) => outcome = "SystemExit(1)"

\* an exact copy of a non-silent signal is validated, or aligned and
\* measured
IdentityRun ==
    /\ \/ /\ call = "validate"
          /\ output_data = input_data
          /\ output_rate = input_rate
       \/ /\ call = "align_signals"
          /\ target = reference
    /\ ~Silent(reference)

WindowedNonSilent(s) == \E i \in HanningSupport(Len(s)) : s[i] # 0

C9_IdentityAnyWindow ==
    (IdentityRun /\ ~Constant(reference) /\ WindowedNonSilent(reference)) =>
        /\ AlignReturned => lag = 0
        /\ Measured => metrics = <<One, One, ZeroDb>>

DelayedBy(k) ==
    /\ k >= 1
    /\ k < Len(reference)
    /\ target = Zeros(k) \o reference
    /\ k * 1000 <= rate * max_delay_ms
    /\ ~Silent(reference)

\* the reference does not repeat itself k samples later
NotSelfSimilarAt(k) ==
    SumSeq([i \in 1..(Len(reference) - k) |-> reference[i] * reference[i + k]]) <= 0

\* the compared parts of the aligned series agree sample for sample
AlignedAgree ==
    \A i \in 1..Min(Len(aligned_ref), Len(aligned_tgt)) : aligned_ref[i] = aligned_tgt[i]

GateReached ==
    /\ call = "validate"
    /\ \/ pc = "reported"
       \/ /\ pc = "done"
          /\ outcome \in {"returned", "SystemExit(1)"}

\* the report line with the given label, as printed so far
Printed(label) == {i \in 1..Len(stdout) : stdout[i].label = label}

\* C11: in every run that reaches the Decision Gate the report lines for
\* the sample-rate match, the channel-count match, the alignment lag and the
\* three metric values have been printed, with the values computed, before
\* the verdict is acted on; they are in the output when the run returns and
\* when it exits with status 1.
C11_ReportBeforeVerdict ==
    GateReached =>
        stdout = << [label |-> "Sample rate match", value |-> sample_rate_match],
                    [label |-> "Channels match", value |-> channels_match],
                    [label |-> "Alignment lag (samples)", value |-> lag],
                    [label |-> "Correlation", value |-> metrics[1]],
                    [label |-> "Spectral similarity", value |-> metrics[2]],
                    [label |-> "RMS dB diff", value |-> metrics[3]] >>

\* a run with a single failing condition has exited with status 1 after a
\* full report
C11_Witness ==
    /\ call = "validate"
    /\ pc = "done"
    /\ outcome = "SystemExit(1)"
    /\ sample_rate_match
    /\ ~channels_match
    /\ Len(stdout) = Len(metrics) + Len(metrics)
    /\ Printed("RMS dB diff") # {}

\* C12: when alignment or metric computation fails with an error, the
\* sample-rate match and the channel-count match computed before it have
\* already been printed.
C12_FactsBeforeFailure ==
    (call = "validate" /\ pc = "done" /\ outcome = "ValueError") =>
        /\ \E i \in Printed("Sample rate match") :
               stdout[i].value = sample_rate_match
        /\ \E i \in Printed("Channels match") :
               stdout[i].value = channels_match

\* C13: every run that does not abort with an error hands the caller a
\* ValidationResult, runs whose verdict is fail included.
C13_ResultAlways ==
    (call = "validate" /\ pc = "done" /\ outcome # "ValueError") =>
        Len(result) = Len(<<outcome>>)

\* C14: a file with zero samples makes the run fail with EmptySignalError
\* raised by mix_down, before any alignment is attempted.
C14_EmptySignalError ==
    (/\ call = "validate"
     /\ pc # "start"
     /\ (input_data.frames = <<>> \/ output_data.frames = <<>>)) =>
        /\ pc = "done"
        /\ outcome = "EmptySignalError"

(* ---------------------------- analysis window -------------------------- *)
\* every series that has the first n samples of s and the length of s
SameHead(s, n) ==
    {Take(s, n) \o x : x \in [1..(Len(s) - Min(n, Len(s))) -> Samples]}

\* C15: the lag is estimated from the first N = min(len(reference),
\* len(target), 5 seconds of samples) samples of each series only: every
\* pair of the same lengths that agrees with the arguments on those first N
\* samples gets the same lag; and the lag is applied to the whole series, so
\* every sample of the target from the lag on (of the reference, for a
\* negative lag) is in the aligned output, those behind the window included.
C15_WindowOnly ==
    (call = "align_signals" /\ pc = "aligned") =>
        LET n == Min(Min(Len(reference), Len(target)), AnalysisSeconds * rate)
        IN /\ \A a \in SameHead(reference, n), b \in SameHead(target, n) :
                LET r == AlignSignals(a, b, rate, max_delay_ms)
                IN r.err = "none" /\ r.lag = lag
           /\ Len(aligned_ref) = Len(reference) - Abs(lag)
           /\ Len(aligned_tgt) = Len(target) - Abs(lag)
           /\ lag >= 0 =>
                \A i \in 1..Len(aligned_tgt) : aligned_tgt[i] = target[i + lag]
           /\ lag <= 0 =>
                \A i \in 1..Len(aligned_ref) : aligned_ref[i] = reference[i - lag]

\* both series are longer than the window, the lag found is not zero, and
\* the target's last sample, behind the window, closes the aligned target
C15_Witness ==
    /\ call = "align_signals"
    /\ pc = "aligned"
    /\ Len(reference) > AnalysisSeconds * rate
    /\ Len(target) > Len(reference)
    /\ lag > 0
    /\ target[Len(target)] # 0
    /\ aligned_tgt[Len(aligned_tgt)] = target[Len(target)]
    /\ Len(aligned_tgt) > AnalysisSeconds * rate

(* ---------------------------- mix_down --------------------------------- *)
\* mono is the per-frame mean over the channels of data (in units of
\* 1/MixScale), one sample per frame
IsMeanOf(mono, data) ==
    /\ Len(mono) = Len(data.frames)
    /\ \A i \in 1..Len(mono) :
           mono[i] * Len(data.frames[i]) = MixScale * SumSeq(data.frames[i])

\* C16: mix_down returns a mono series with one sample per input frame,
\* sample i being the arithmetic mean of the frame's C >= 1 channel samples
\* (the channel itself for C = 1); the array it was given is as it was.
C16_MeanOverChannels ==
    /\ call = "mix_down" => IsMeanOf(reference, input_data)
    /\ (call = "validate" /\ pc # "start") =>
           /\ IsMeanOf(reference, input_data)
           /\ IsMeanOf(target, output_data)
    /\ call \in {"mix_down", "validate"} =>
           \A i \in 1..Len(input_data.frames) :
               /\ Len(input_data.frames[i]) = input_data.channels
               /\ input_data.channels = 1 =>
                      reference[i] = MixScale * input_data.frames[i][1]

\* two frames of two channels that differ have been mixed down
C16_Witness ==
    /\ call = "mix_down"
    /\ pc = "done"
    /\ input_data.channels > 1
    /\ Len(reference) > 1
    /\ \E i \in 1..Len(input_data.frames) :
           /\ input_data.frames[i][1] # input_data.frames[i][input_data.channels]
           /\ reference[i] # 0

(* ---------------------------- web: daemon client claims ---------------- *)
\* the reply is a JSON object whose "status" member is the string "ok"
IsOkEnvelope(text) ==
    LET j == JsonLoads(text)
    IN /\ j.ok
       /\ j.value.kind = "object"
       /\ JsonHas(j.value, "status")
       /\ JsonGet(j.value, "status").kind = "str"
       /\ JsonGet(j.value, "status").atom = "ok"

\* the reply is not JSON and its first token begins with OK
IsLegacyOk(text) ==
    /\ ~JsonLoads(text).ok
    /\ text # <<>>
    /\ Head(text) \in {"OK", "OKAY"}

\* C17: _parse_response gives success exactly for a JSON object whose
\* status is "ok" and for a non-JSON text that begins with OK; every other
\* reply (a JSON object with another status, JSON that is not an object,
\* other text) is a failure; the message is always the raw reply text.
C17_ReplyClassification ==
    endpoint = "_parse_response" =>
        /\ parsed.message = reply
        /\ parsed.success <=> (IsOkEnvelope(reply) \/ IsLegacyOk(reply))

\* a legacy reply with text behind the OK has been classified a success
C17_Witness ==
    /\ endpoint = "_parse_response"
    /\ parsed.success
    /\ parsed.message = reply
    /\ IsLegacyOk(reply)
    /\ Len(reply) > 1

(* ---------------------------- web: router claims ----------------------- *)
\* the value is a list of plain strings
IsStringList(v) ==
    /\ v.kind = "array"
    /\ \A i \in 1..Len(v.items) : v.items[i].kind = "str"

\* C18: GET /api/alsa/devices, for a successful daemon reply whose playback
\* and capture lists are plain device-name strings, answers 200 with
\* playback and capture equal to those lists of strings.
C18_PlainStringLists ==
    (/\ endpoint = "list_alsa_devices"
     /\ ~inputs.raises
     /\ inputs.response.success
     /\ HasData(inputs.response)
     /\ inputs.response.data.kind = "object"
     /\ JsonHas(inputs.response.data, "playback")
     /\ JsonHas(inputs.response.data, "capture")
     /\ IsStringList(JsonGet(inputs.response.data, "playback"))
     /\ IsStringList(JsonGet(inputs.response.data, "capture"))) =>
        /\ http.status = 200
        /\ JsonGet(http.body, "playback") = JsonGet(inputs.response.data, "playback")
        /\ JsonGet(http.body, "capture") = JsonGet(inputs.response.data, "capture")

\* what the exchanges of the run came to
PingAnswered == ~inputs.ping.raises /\ inputs.ping.response.success
ReloadSucceeded ==
    /\ \E i \in 1..Len(commands) : commands[i] = "RELOAD"
    /\ ~inputs.reload.raises
    /\ inputs.reload.response.success

\* C19: PATCH /api/config, once the config is saved, answers success with
\* restart_required the negation of "the daemon reload succeeded": with the
\* daemon not running no RELOAD is sent, restart_required is true and
\* daemon_running false; a RELOAD that fails or raises gives restart_required
\* true; only a successful RELOAD gives false.
C19_RestartRequired ==
    (endpoint = "update_config" /\ wpc = "done" /\ inputs.saved) =>
        /\ http.status = 200
        /\ JsonGet(http.body, "success") = JsonBool(TRUE)
        /\ JsonGet(http.body, "restart_required") = JsonBool(~ReloadSucceeded)
        /\ ~PingAnswered =>
               /\ \A i \in 1..Len(commands) : commands[i] # "RELOAD"
               /\ JsonGet(http.body, "restart_required") = JsonBool(TRUE)
               /\ JsonGet(JsonGet(http.body, "data"), "daemon_running") = JsonBool(FALSE)
        /\ PingAnswered => commands = <<"PING", "RELOAD">>

\* the daemon runs, the RELOAD was answered with a failure, and the answer
\* is a success that asks for a restart
C19_Witness ==
    /\ endpoint = "update_config"
    /\ wpc = "done"
    /\ inputs.saved
    /\ PingAnswered
    /\ commands = <<"PING", "RELOAD">>
    /\ ~inputs.reload.raises
    /\ ~inputs.reload.response.success
    /\ http.status = 200
    /\ JsonGet(http.body, "restart_required") = JsonBool(TRUE)
    /\ JsonGet(JsonGet(http.body, "data"), "daemon_running") = JsonBool(TRUE)

\* the data payload of a reply: the data attribute of the response, or the
\* "data" member of the JSON envelope the daemon sent
ReplyData(x) ==
    IF HasData(x.response) THEN x.response.data
    ELSE LET j == JsonLoads(x.text)
         IN IF j.ok /\ j.value.kind = "object" THEN JsonGet(j.value, "data")
            ELSE JsonNull

\* the stats file is a JSON object with integer rates
HasRates(file) ==
    /\ file.kind = "object"
    /\ JsonGet(file, "input_rate").kind = "num"
    /\ JsonGet(file, "output_rate").kind = "num"

\* the STATS payload, when there is one, has a string or null phase_type
StatsWellTyped ==
    ReplyData(inputs.fetch).kind = "object" =>
        StrFieldOk(JsonGet(ReplyData(inputs.fetch), "phase_type"))

\* the xrun total of a stats file: audio.xrun.total, else audio.xrun_count,
\* else the top-level xrun_count, else 0
XrunOf(file) ==
    LET audio == JsonGet(file, "audio")
        xrun == IF audio.kind = "object" THEN JsonGet(audio, "xrun") ELSE JsonNull
    IN IF xrun.kind = "object" /\ JsonHas(xrun, "total") THEN JsonGet(xrun, "total")
       ELSE IF audio.kind = "object" /\ JsonHas(audio, "xrun_count")
       THEN JsonGet(audio, "xrun_count")
       ELSE IF JsonHas(file, "xrun_count") THEN JsonGet(file, "xrun_count")
       ELSE JsonNum("0")

\* C20: GET /api/status reports daemon_running from the PING check and
\* input_rate / output_rate / xrun_total from the stats file; whenever the
\* daemon is running and answers STATS with a successful envelope carrying a
\* data object, phase_type, uptime_ms, reloads and soft_resets are those of
\* that data; when the daemon is not running no STATS is sent, the state is
\* "stopped" and the four daemon fields are null.
C20_StatusFields ==
    (/\ endpoint = "get_status"
     /\ wpc = "done"
     /\ HasRates(inputs.stats_file)
     /\ StatsWellTyped) =>
        /\ JsonGet(http.body, "daemon_running") = JsonBool(PingAnswered)
        /\ JsonGet(http.body, "input_rate") = JsonGet(inputs.stats_file, "input_rate")
        /\ JsonGet(http.body, "output_rate") = JsonGet(inputs.stats_file, "output_rate")
        /\ JsonGet(http.body, "xrun_total") = XrunOf(inputs.stats_file)
        /\ (/\ PingAnswered
            /\ ~inputs.fetch.raises
            /\ inputs.fetch.response.success
            /\ ReplyData(inputs.fetch).kind = "object") =>
               \A f \in {"phase_type", "uptime_ms", "reloads", "soft_resets"} :
                   JsonGet(http.body, f) = JsonGet(ReplyData(inputs.fetch), f)
        /\ ~PingAnswered =>
               /\ commands = <<"PING">>
               /\ JsonGet(http.body, "state") = JsonStr("stopped")
               /\ \A f \in {"phase_type", "uptime_ms", "reloads", "soft_resets"} :
                      JsonGet(http.body, f) = JsonNull

\* every counter and rate the stats document holds is an integer
IntegerStats(file) ==
    LET audio == JsonGet(file, "audio")
        xrun == IF audio.kind = "object" THEN JsonGet(audio, "xrun") ELSE JsonNull
        IntOrAbsent(d, key) == JsonHas(d, key) => JsonGet(d, key).kind = "num"
    IN /\ file.kind = "object"
       /\ IntOrAbsent(file, "input_rate")
       /\ IntOrAbsent(file, "output_rate")
       /\ IntOrAbsent(file, "xrun_count")
       /\ audio.kind = "object" => IntOrAbsent(audio, "xrun_count")
       /\ xrun.kind = "object" => IntOrAbsent(xrun, "total")

\* C21: load_stats takes xrun_total from audio.xrun.total, else from
\* audio.xrun_count, else from the top-level xrun_count, else 0, and the two
\* rates from the top level; a missing file, a file that is not JSON and a
\* document that is not an object give the all-zero default stats and no
\* error.
C21_LoadStats ==
    endpoint = "load_stats" =>
        /\ inputs.stats_file.kind # "object" =>
               ~inputs.raises /\ inputs.stats = StatsOf(JsonNum("0"), JsonNum("0"), JsonNum("0"))
        /\ IntegerStats(inputs.stats_file) =>
               /\ ~inputs.raises
               /\ JsonGet(inputs.stats, "xrun_total") = XrunOf(inputs.stats_file)
               /\ JsonGet(inputs.stats, "input_rate")
                      = JsonGetOr(inputs.stats_file, "input_rate", JsonNum("0"))
               /\ JsonGet(inputs.stats, "output_rate")
                      = JsonGetOr(inputs.stats_file, "output_rate", JsonNum("0"))

\* a document with all three counters: the total of audio.xrun wins
C21_Witness ==
    /\ endpoint = "load_stats"
    /\ IntegerStats(inputs.stats_file)
    /\ JsonHas(inputs.stats_file, "xrun_count")
    /\ JsonHas(JsonGet(inputs.stats_file, "audio"), "xrun_count")
    /\ JsonHas(JsonGet(inputs.stats_file, "audio"), "xrun")
    /\ JsonGet(inputs.stats, "xrun_total") = JsonNum("1")
    /\ JsonGet(inputs.stats, "input_rate") = JsonNum("1")

\* the daemon client reported success for the phase-type command
PhaseSucceeded == ~inputs.exchange.raises /\ inputs.exchange.response.success
\* the phase_type of the reply's data, when the data has one
PhaseInReply ==
    /\ ReplyData(inputs.exchange).kind = "object"
    /\ JsonHas(ReplyData(inputs.exchange), "phase_type")
PhaseIsString ==
    PhaseInReply => JsonGet(ReplyData(inputs.exchange), "phase_type").kind = "str"

\* C22: the phase-type endpoints relay the daemon's reply. When the client
\* reports success, GET answers 200 with the phase_type of the reply's data
\* and PUT answers success = true with the reply's data; when the command
\* raises or reports failure, or for GET the data has no phase_type, the
\* answer is 502.
C22_PhaseTypeRelay ==
    /\ (endpoint = "get_phase_type" /\ PhaseIsString) =>
           IF PhaseSucceeded /\ PhaseInReply
           THEN /\ http.status = 200
                /\ JsonGet(http.body, "phase_type")
                       = JsonGet(ReplyData(inputs.exchange), "phase_type")
           ELSE http.status = 502
    /\ endpoint = "set_phase_type" =>
           IF PhaseSucceeded
           THEN /\ http.status = 200
                /\ JsonGet(http.body, "success") = JsonBool(TRUE)
                /\ JsonGet(http.body, "data")
                       = (IF ReplyData(inputs.exchange).kind = "object"
                          THEN ReplyData(inputs.exchange) ELSE JsonNull)
           ELSE http.status = 502

\* a line of the profile format: one Preamp line in range, or a filter line
\* with a known type, its frequency in range, the gain and Q its type uses,
\* and every gain and Q it gives in range
GoodPreampLine(line) ==
    /\ line.key = "Preamp:"
    /\ line.value # <<>>
    /\ line.value[1] >= PREAMP_MIN_DB /\ line.value[1] <= PREAMP_MAX_DB
GoodFilterLine(line) ==
    /\ line.key = "Filter"
    /\ line.matched
    /\ line.filter_type \in FilterTypes
    /\ line.frequency >= FREQ_MIN_HZ /\ line.frequency <= FREQ_MAX_HZ
    /\ FILTER_TYPE_PARAMS[line.filter_type].gain => line.gain # <<>>
    /\ FILTER_TYPE_PARAMS[line.filter_type].q => line.q # <<>>
    /\ line.gain # <<>> => (line.gain[1] >= GAIN_MIN_DB /\ line.gain[1] <= GAIN_MAX_DB)
    /\ line.q # <<>> => (line.q[1] >= Q_MIN /\ line.q[1] <= Q_MAX)
GoodProfile(lines) ==
    /\ \A i \in 1..Len(lines) : GoodPreampLine(lines[i]) \/ GoodFilterLine(lines[i])
    /\ Cardinality({i \in 1..Len(lines) : lines[i].key = "Preamp:"}) <= 1

\* C23: the validator accepts every profile of zero or one Preamp line and
\* zero or more well-formed filter lines in range: valid, with no errors,
\* also when there is no Preamp line.
C23_AcceptsWellFormed ==
    (eq_pc = "validated" /\ GoodProfile(content)) =>
        validation.valid /\ validation.errors = <<>>

\* the daemon answered STATS with a successful envelope whose data is a dict
StatsDelivered ==
    /\ ~inputs.fetch.raises
    /\ inputs.fetch.response.success
    /\ ReplyData(inputs.fetch).kind = "object"

\* C24: fetch_zmq_stats returns the data dictionary of the STATS reply when
\* the daemon answers with a successful envelope carrying a dict, and
\* returns an empty dict, without raising, when the daemon cannot be
\* reached, fails, or sends no dict.
C24_FetchZmqStats ==
    endpoint = "fetch_zmq_stats" =>
        /\ ~inputs.raises
        /\ inputs.zmq_stats = (IF StatsDelivered THEN ReplyData(inputs.fetch)
                               ELSE JsonObject(<<>>))

\* the keys a save writes: at the top level, and inside a section
SectionKeys(name) ==
    IF name = "alsa"
    THEN {"inputDevice", "outputDevice", "sampleRate", "channels", "format",
          "periodFrames", "bufferFrames"}
    ELSE {"ratio", "phaseType", "directory"}
SectionWritten(name) ==
    IF endpoint = "save_config" THEN JsonGet(inputs.settings, name) # JsonNull
    ELSE JsonHas(inputs.updates, name)
TopKeysWritten ==
    (IF endpoint = "save_config" THEN {"eqEnabled", "eqProfile", "eqProfilePath"}
     ELSE {inputs.updates.items[i][1] : i \in 1..Len(inputs.updates.items)})
    \cup {name \in {"alsa", "filter"} : SectionWritten(name)}
    \cup (IF SectionWritten("alsa")
          THEN {LegacyAlsaKeys[i] : i \in 1..Len(LegacyAlsaKeys)} ELSE {})
InnerKeysWritten(name) ==
    IF endpoint = "save_config" THEN SectionKeys(name)
    ELSE LET value == JsonGet(inputs.updates, name)
         IN {value.items[i][1] : i \in 1..Len(value.items)}
KeysOf(d) == {d.items[i][1] : i \in 1..Len(d.items)}
SaveReturned == endpoint \in {"save_config", "save_config_updates"}

C26_SocketLifecycle ==
    /\ (socket = "None") <=> (context = "None")
    /\ ~leaked
    /\ (last.op = "send_command" /\ last.had_socket) => ~last.connected_anew
    /\ last.op \in {"close", "__exit__"} => (socket = "None" /\ context = "None")

\* C27: for a non-empty reference and target every lag align_signals
\* selects has |lag| <= min(len(reference), len(target), 5 * rate) - 1, both
\* aligned series are non-empty, and a validate run never takes the
\* zero-length branch of compute_metrics (nor fails in the alignment).
C27_LagBound ==
    (reference # <<>> /\ target # <<>>) =>
        /\ AlignReturned =>
               /\ Abs(lag) <= WindowLength - 1
               /\ aligned_ref # <<>>
               /\ aligned_tgt # <<>>
        /\ (call = "validate" /\ pc \in {"aligned", "measured", "reported", "done"}) =>
               /\ outcome # "ValueError"
               /\ Len(metrics) # 2

\* a validate run whose lag is the largest the analysis window allows, with
\* one sample left of the shorter series
C27_Witness ==
    /\ Measured
    /\ call = "validate"
    /\ lag # 0
    /\ Abs(lag) = WindowLength - 1
    /\ Len(cm_ref) = 1

\* C28: EQ is never enabled without a profile path.  The Settings
\* load_config returns have eq_enabled only with a non-empty
\* eq_profile_path; a file save_config wrote has eqEnabled true only with a
\* non-null eqProfilePath, and eqProfile and eqProfilePath both null when
\* eqEnabled is false.
C28_EqNeedsPath ==
    /\ (endpoint = "load_config" /\ ~inputs.raises) =>
           (JsonGet(inputs.settings, "eq_enabled") = JsonBool(TRUE) =>
                /\ JsonGet(inputs.settings, "eq_profile_path").kind = "str"
                /\ JsonGet(inputs.settings, "eq_profile_path").atom # "")
    /\ (endpoint = "save_config" /\ inputs.ok) =>
           /\ JsonGet(config, "eqEnabled") \in {JsonBool(TRUE), JsonBool(FALSE)}
           /\ JsonGet(config, "eqEnabled") = JsonBool(TRUE) =>
                  JsonGet(config, "eqProfilePath") # JsonNull
           /\ JsonGet(config, "eqEnabled") = JsonBool(FALSE) =>
                  /\ JsonGet(config, "eqProfile") = JsonNull
                  /\ JsonGet(config, "eqProfilePath") = JsonNull

\* save_config was asked to enable EQ with a profile name and no path, and
\* again with neither: the first file has the path built from the name
C28_Witness ==
    /\ endpoint = "save_config"
    /\ inputs.ok
    /\ JsonGet(inputs.settings, "eq_enabled") = JsonBool(TRUE)
    /\ ~Truthy(JsonGet(inputs.settings, "eq_profile_path"))
    /\ JsonGet(config, "eqEnabled") = JsonBool(TRUE)
    /\ JsonGet(config, "eqProfilePath") = JsonStr("EQ/flat.txt")

\* C29: PATCH /api/config sends RELOAD only after the config was saved and
\* only after a PING check that found the daemon running; when the save
\* fails the answer is 500, no command was sent to the daemon and the answer
\* carries no settings.
C29_ReloadAfterSave ==
    endpoint = "update_config" =>
        /\ (\E i \in 1..Len(commands) : commands[i] = "RELOAD") =>
               /\ inputs.saved
               /\ PingAnswered
               /\ commands = <<"PING", "RELOAD">>
        /\ commands # <<>> => inputs.saved
        /\ ~inputs.saved =>
               /\ wpc = "done"
               /\ http.status = 500
               /\ commands = <<>>
               /\ ~JsonHas(http.body, "data")
               /\ ~JsonHas(http.body, "settings")

\* a request whose save succeeded, whose PING was answered and whose RELOAD
\* was sent and answered
C29_Witness ==
    /\ endpoint = "update_config"
    /\ wpc = "done"
    /\ inputs.saved
    /\ commands = <<"PING", "RELOAD">>
    /\ ReloadSucceeded
    /\ JsonHas(JsonGet(http.body, "data"), "settings")

\* the dict an accessor counts
CountedBy(op) ==
    CASE op = "vendor_count" -> vendors
      [] op = "product_count" -> products
      [] op = "eq_profile_count" -> eq_profiles
      [] OTHER -> {}

OpraAccessors == {"vendor_count", "product_count", "eq_profile_count"}

\* what every call on the database did
OpraCalls ==
    /\ constructed <= 1
    /\ db_instance \in {0, constructed}
    /\ opra_last.op = "get_database" =>
           /\ opra_last.returned = 1
           /\ db_instance = 1
    /\ opra_last.op \in OpraAccessors =>
           /\ opra_last.was_loaded =>
                  /\ opra_last.opened = 0
                  /\ opra_last.raised = "none"
                  /\ loaded
                  /\ opra_last.returned = Cardinality(CountedBy(opra_last.op))
           /\ (~opra_last.was_loaded /\ ~opra_last.file_existed) =>
                  /\ opra_last.raised = "FileNotFoundError"
                  /\ opra_last.opened = 0
                  /\ ~loaded
           /\ (~opra_last.was_loaded /\ opra_last.file_existed) =>
                  /\ opra_last.opened = 1
                  /\ loaded <=> opra_last.raised = "none"

\* a loaded database stays loaded, on the same instance, with the same
\* contents, whatever is called and whatever happens to the file
StaysLoaded ==
    loaded => /\ loaded'
              /\ UNCHANGED <<vendors, products, eq_profiles, db_instance>>

\* C30: once an OpraDatabase has loaded, no later accessor call opens the file
\* again and each answers from the dicts in memory; get_database returns the
\* one shared instance on every call; a load that finds no file raises
\* FileNotFoundError and leaves the instance unloaded, so that the next call
\* tries the load again.
C30_LazyLoad == []OpraCalls /\ [][StaysLoaded]_vars

\* after a load that failed for want of the file and a later load that
\* succeeded, the file is gone again and an accessor still answers, from
\* memory and without opening anything
C30_Witness ==
    /\ failed_before
    /\ loaded
    /\ ~db_file.exists
    /\ opra_last.op = "vendor_count"
    /\ opra_last.was_loaded
    /\ opra_last.opened = 0
    /\ opra_last.returned = 2

============================================================================
